---- MODULE Spec2Model ----
(***************************************************************************)
(* The lexical retrieval engine of WriteLoopBackend:                        *)
(*   app/data/writing_corpus.py     the static phrase list, the two lazy    *)
(*                                  module-level caches and their loaders   *)
(*   app/services/rag_retriever.py  retrieve_similar_continuations          *)
(* Texts are sequences of one-character strings, so that lower(), strip(),  *)
(* split() and the "in" substring test are computed character by character. *)
(***************************************************************************)
EXTENDS Integers, Sequences, FiniteSets, TLC

----------------------------------------------------------------------------
(* Python's str methods used by the two files. *)

Whitespace == {" ", "\n", "\t"}

UpperCase == <<"A","B","C","D","E","F","G","H","I","J","K","L","M","N","O","P","Q","R","S","T","U","V","W","X","Y","Z">>

LowerCase == <<"a","b","c","d","e","f","g","h","i","j","k","l","m","n","o","p","q","r","s","t","u","v","w","x","y","z">>

\* str.lower() on one character.
LowerChar(c) ==
  IF \E i \in 1..Len(UpperCase) : UpperCase[i] = c
  THEN LowerCase[CHOOSE i \in 1..Len(UpperCase) : UpperCase[i] = c]
  ELSE c

\* str.lower()
Lower(t) == [i \in 1..Len(t) |-> LowerChar(t[i])]

\* sub occurs in t at offset i (0-based)
MatchAt(sub, t, i) ==
  /\ i + Len(sub) <= Len(t)
  /\ \A j \in 1..Len(sub) : t[i + j] = sub[j]

\* Python's  sub in t  on strings
Contains(sub, t) == \E i \in 0..(Len(t) - Len(sub)) : MatchAt(sub, t, i)

\* str.strip(): leading and trailing whitespace removed
Strip(t) ==
  LET keep == {i \in 1..Len(t) : t[i] \notin Whitespace}
  IN  IF keep = {} THEN <<>>
      ELSE LET lo == CHOOSE i \in keep : \A j \in keep : i <= j
               hi == CHOOSE i \in keep : \A j \in keep : j <= i
           IN  SubSeq(t, lo, hi)

\* str.split(sep) for a non-empty separator: cut at the leftmost occurrences
RECURSIVE Split(_, _)
Split(t, sep) ==
  LET hits == {i \in 0..(Len(t) - Len(sep)) : MatchAt(sep, t, i)}
  IN  IF hits = {} THEN <<t>>
      ELSE LET i == CHOOSE h \in hits : \A g \in hits : h <= g
           IN  <<SubSeq(t, 1, i)>> \o Split(SubSeq(t, i + Len(sep) + 1, Len(t)), sep)

\* str.split() without a separator: the maximal runs of non-whitespace
RECURSIVE SplitWords(_)
SplitWords(t) ==
  LET s == Strip(t)
  IN  IF s = <<>> THEN <<>>
      ELSE LET ws == {i \in 1..Len(s) : s[i] \in Whitespace}
           IN  IF ws = {} THEN <<s>>
               ELSE LET i == CHOOSE w \in ws : \A v \in ws : w <= v
                    IN  <<SubSeq(s, 1, i - 1)>> \o SplitWords(SubSeq(s, i + 1, Len(s)))

\* set(words)
WordSet(t) == {SplitWords(t)[i] : i \in 1..Len(SplitWords(t))}

\* the slice taken from the end of the list: its last n elements
PySliceTail(seq, n) ==
  IF n <= 0 THEN <<>>
  ELSE IF n >= Len(seq) THEN seq
  ELSE SubSeq(seq, Len(seq) - n + 1, Len(seq))

\* the slice forgotten: the whole list comes back
PySliceAll(seq, n) == seq

\* seq[:n] of Python, n of either sign
PySlice(seq, n) ==
  IF n >= 0 THEN SubSeq(seq, 1, IF n < Len(seq) THEN n ELSE Len(seq))
  ELSE SubSeq(seq, 1, IF Len(seq) + n > 0 THEN Len(seq) + n ELSE 0)

\* x in seq  of Python on a list
InList(x, seq) == \E i \in 1..Len(seq) : seq[i] = x

----------------------------------------------------------------------------
(* app/data/writing_corpus.py: the static phrase list *)

\* lines 10-41
WRITING_CORPUS ==
  << <<"h","a","s"," ","r","e","v","o","l","u","t","i","o","n","i","z","e","d"," ","t","h","e"," ","w","a","y"," ","w","e"," ","c","o","m","m","u","n","i","c","a","t","e"," ","a","n","d"," ","w","o","r","k">>,
     <<"b","r","i","n","g","s"," ","b","o","t","h"," ","u","n","p","r","e","c","e","d","e","n","t","e","d"," ","o","p","p","o","r","t","u","n","i","t","i","e","s"," ","a","n","d"," ","s","i","g","n","i","f","i","c","a","n","t"," ","c","h","a","l","l","e","n","g","e","s">>,
     <<"c","a","n"," ","l","e","a","d"," ","t","o"," ","s","o","c","i","a","l"," ","i","s","o","l","a","t","i","o","n"," ","i","f"," ","n","o","t"," ","u","s","e","d"," ","r","e","s","p","o","n","s","i","b","l","y">>,
     <<"e","n","h","a","n","c","e","s"," ","l","e","a","r","n","i","n","g"," ","e","f","f","i","c","i","e","n","c","y"," ","t","h","r","o","u","g","h"," ","p","e","r","s","o","n","a","l","i","z","e","d"," ","c","o","n","t","e","n","t">>,
     <<"r","e","q","u","i","r","e","s"," ","i","m","m","e","d","i","a","t","e"," ","a","c","t","i","o","n"," ","f","r","o","m"," ","g","o","v","e","r","n","m","e","n","t","s"," ","a","n","d"," ","i","n","d","i","v","i","d","u","a","l","s"," ","a","l","i","k","e">>,
     <<"i","s"," ","a"," ","p","r","e","s","s","i","n","g"," ","g","l","o","b","a","l"," ","i","s","s","u","e"," ","t","h","a","t"," ","d","e","m","a","n","d","s"," ","c","o","l","l","e","c","t","i","v","e"," ","e","f","f","o","r","t","s">>,
     <<"c","a","n"," ","b","e"," ","m","i","t","i","g","a","t","e","d"," ","t","h","r","o","u","g","h"," ","s","u","s","t","a","i","n","a","b","l","e"," ","p","r","a","c","t","i","c","e","s"," ","a","n","d"," ","i","n","n","o","v","a","t","i","o","n">>,
     <<"p","o","s","e","s"," ","a"," ","s","e","r","i","o","u","s"," ","t","h","r","e","a","t"," ","t","o"," ","b","i","o","d","i","v","e","r","s","i","t","y"," ","a","n","d"," ","e","c","o","s","y","s","t","e","m"," ","s","t","a","b","i","l","i","t","y">>,
     <<"f","o","s","t","e","r","s"," ","c","r","i","t","i","c","a","l"," ","t","h","i","n","k","i","n","g"," ","a","n","d"," ","i","n","d","e","p","e","n","d","e","n","t"," ","l","e","a","r","n","i","n","g"," ","s","k","i","l","l","s">>,
     <<"s","h","o","u","l","d"," ","e","m","p","h","a","s","i","z","e"," ","p","r","a","c","t","i","c","a","l"," ","a","p","p","l","i","c","a","t","i","o","n"," ","o","v","e","r"," ","r","o","t","e"," ","m","e","m","o","r","i","z","a","t","i","o","n">>,
     <<"p","l","a","y","s"," ","a"," ","p","i","v","o","t","a","l"," ","r","o","l","e"," ","i","n"," ","s","h","a","p","i","n","g"," ","f","u","t","u","r","e"," ","s","o","c","i","e","t","a","l"," ","l","e","a","d","e","r","s">>,
     <<"m","u","s","t"," ","b","e"," ","a","c","c","e","s","s","i","b","l","e"," ","t","o"," ","a","l","l"," ","r","e","g","a","r","d","l","e","s","s"," ","o","f"," ","s","o","c","i","o","e","c","o","n","o","m","i","c"," ","b","a","c","k","g","r","o","u","n","d">>,
     <<"c","a","l","l","s"," ","f","o","r"," ","c","o","m","p","r","e","h","e","n","s","i","v","e"," ","l","e","g","i","s","l","a","t","i","o","n"," ","a","n","d"," ","p","u","b","l","i","c"," ","a","w","a","r","e","n","e","s","s"," ","c","a","m","p","a","i","g","n","s">>,
     <<"i","s"," ","i","n","s","t","r","u","m","e","n","t","a","l"," ","i","n"," ","p","r","o","m","o","t","i","n","g"," ","s","o","c","i","a","l"," ","e","q","u","i","t","y"," ","a","n","d"," ","j","u","s","t","i","c","e">>,
     <<"c","a","n"," ","s","i","g","n","i","f","i","c","a","n","t","l","y"," ","r","e","d","u","c","e"," ","i","n","e","q","u","a","l","i","t","y"," ","i","f"," ","p","r","o","p","e","r","l","y"," ","i","m","p","l","e","m","e","n","t","e","d">>,
     <<"d","e","m","a","n","d","s"," ","a"," ","b","a","l","a","n","c","e","d"," ","a","p","p","r","o","a","c","h"," ","b","e","t","w","e","e","n"," ","f","r","e","e","d","o","m"," ","a","n","d"," ","r","e","g","u","l","a","t","i","o","n">>,
     <<"i","s"," ","s","u","p","p","o","r","t","e","d"," ","b","y"," ","a"," ","g","r","o","w","i","n","g"," ","b","o","d","y"," ","o","f"," ","e","m","p","i","r","i","c","a","l"," ","e","v","i","d","e","n","c","e">>,
     <<"r","e","m","a","i","n","s"," ","a"," ","s","u","b","j","e","c","t"," ","o","f"," ","i","n","t","e","n","s","e"," ","d","e","b","a","t","e"," ","a","m","o","n","g"," ","s","c","h","o","l","a","r","s">>,
     <<"c","a","n"," ","b","e"," ","a","t","t","r","i","b","u","t","e","d"," ","t","o"," ","a"," ","c","o","n","f","l","u","e","n","c","e"," ","o","f"," ","h","i","s","t","o","r","i","c","a","l"," ","a","n","d"," ","e","c","o","n","o","m","i","c"," ","f","a","c","t","o","r","s">>,
     <<"w","a","r","r","a","n","t","s"," ","f","u","r","t","h","e","r"," ","i","n","v","e","s","t","i","g","a","t","i","o","n"," ","t","o"," ","f","u","l","l","y"," ","u","n","d","e","r","s","t","a","n","d"," ","i","t","s"," ","i","m","p","l","i","c","a","t","i","o","n","s">>,
     <<"i","s"," ","w","i","d","e","l","y"," ","r","e","g","a","r","d","e","d"," ","a","s"," ","a"," ","c","o","r","n","e","r","s","t","o","n","e"," ","o","f"," ","m","o","d","e","r","n"," ","s","o","c","i","e","t","y">> >>

\* suggest_service.py line 20: the characters of text[-100:]
ContextWindow == 100

\* the window left out: the whole text
WindowAll(text) == text

\* suggest_service.py line 20: text[-100:]
Window(text) ==
  IF Len(text) > ContextWindow
  THEN SubSeq(text, Len(text) - ContextWindow + 1, Len(text))
  ELSE text

\* suggest_service.py line 28: top_k=3
SuggestTopK == 3

\* Python's None beside a value: a nullable column, an Optional argument, an unset cache
None == [isNone |-> TRUE, val |-> <<>>]

Some(v) == [isNone |-> FALSE, val |-> v]

\* x or ""  on a nullable text column (lines 51 and 112)
OrEmpty(x) == IF x.isNone THEN <<>> ELSE x.val

\* the separator of body_text.split(". ") (writing_corpus.py line 53, rag_retriever.py line 24)
SentenceSeparator == <<".", " ">>

----------------------------------------------------------------------------
(* The essays table and the requests the model draws from.  Essay rows are   *)
(* [essay_number, body_text, body_paragraphs], the two texts nullable, kept  *)
(* in ascending essay_number as the two queries order them.                  *)

Sentence1 == <<"C","l","i","m","a","t","e"," ","p","o","l","i","c","y"," ","s","h","a","p","e","s"," ","h","o","w"," ","e","v","e","r","y"," ","n","a","t","i","o","n"," ","p","l","a","n","s"," ","i","t","s"," ","f","u","t","u","r","e">>

Sentence2 == <<"m","a","n","y"," ","p","e","o","p","l","e"," ","a","r","g","u","e"," ","t","h","a","t"," ","c","i","t","i","e","s"," ","n","e","e","d"," ","c","l","e","a","n","e","r"," ","p","u","b","l","i","c"," ","t","r","a","n","s","p","o","r","t"," ","n","o","w">>

Sentence3 == <<"t","h","e"," ","g","r","o","w","t","h"," ","o","f"," ","c","i","t","i","e","s"," ","h","a","s"," ","c","h","a","n","g","e","d"," ","h","o","w"," ","f","a","m","i","l","i","e","s"," ","l","i","v","e"," ","t","o","d","a","y">>

\* a sentence of 25 words about climate policy
Sentence25 == <<"a"," ","s","o","u","n","d"," ","c","l","i","m","a","t","e"," ","p","o","l","i","c","y"," ","l","e","t","s"," ","e","v","e","r","y"," ","c","o","u","n","t","r","y"," ","c","u","t"," ","i","t","s"," ","c","a","r","b","o","n"," ","o","u","t","p","u","t"," ","w","h","i","l","e"," ","i","t"," ","s","t","i","l","l"," ","p","r","o","t","e","c","t","s"," ","t","h","e"," ","j","o","b","s"," ","a","n","d"," ","t","h","e"," ","h","o","m","e","s"," ","o","f"," ","a","l","l"," ","w","h","o"," ","l","i","v","e"," ","t","h","e","r","e">>

ShortSentence == <<"I","t"," ","w","o","r","k","s">>

CtxEmpty == <<>>

CtxPolicy == <<"g","o","v","e","r","n","m","e","n","t"," ","p","o","l","i","c","y"," ","o","n"," ","e","m","i","s","s","i","o","n","s">>

CtxTech == <<"t","h","e"," ","r","a","p","i","d"," ","g","r","o","w","t","h"," ","o","f"," ","t","e","c","h","n","o","l","o","g","y"," ","h","a","s"," ","c","h","a","n","g","e","d"," ","e","d","u","c","a","t","i","o","n">>

CtxCities == <<"T","h","e"," ","G","r","o","w","t","h"," ","O","f"," ","C","i","t","i","e","s">>

\* the last 100 characters of the two long texts
TextTail == <<" ","m","a","n","y"," ","e","x","p","e","r","t","s"," ","n","o","w"," ","h","o","l","d"," ","t","h","a","t"," ","a"," ","f","i","r","m"," ","g","o","v","e","r","n","m","e","n","t"," ","p","o","l","i","c","y"," ","o","n"," ","e","m","i","s","s","i","o","n","s"," ","i","s"," ","t","h","e"," ","b","e","s","t"," ","w","a","y"," ","t","o"," ","p","r","o","t","e","c","t"," ","u","s"," ","a","l","l",".">>

\* two texts longer than the window that differ only before their last 100 characters
TextA == <<"T","e","c","h","n","o","l","o","g","y"," ","m","a","t","t","e","r","s",";">> \o TextTail

TextB == <<"F","a","r","m","i","n","g"," ","m","a","t","t","e","r","s",";">> \o TextTail

\* a text of white space only
TextBlank == <<" ", " ">>

SuggestTexts == {TextA, TextB, TextBlank}

\* a context that shares one word with one sentence of the essays and gates no category
CtxFamilies == <<"f","a","m","i","l","i","e","s">>

\* a context that gates two categories, environment and society
CtxClimate == <<"c","l","i","m","a","t","e"," ","p","o","l","i","c","y">>

\* essay 7: a keyword sentence, one sentence twice, and a fragment too short to keep
Body7 ==
  Sentence1 \o SentenceSeparator \o Sentence3 \o SentenceSeparator
    \o Sentence3 \o SentenceSeparator \o ShortSentence \o <<".">>

\* essay 9: its last sentence keeps the final full stop
Body9 == Sentence2 \o SentenceSeparator \o Sentence3 \o <<".">>

\* essay 7 with the 25-word sentence after a sentence that holds "people"
Body7Late ==
  Sentence2 \o SentenceSeparator \o Sentence25 \o SentenceSeparator
    \o ShortSentence \o <<".">>

\* essay 7 with the 25-word sentence between two others, the first sentence
\* that holds a keyword of the society category
Body7Mid ==
  Sentence3 \o SentenceSeparator \o Sentence25 \o SentenceSeparator
    \o Sentence2 \o <<".">>

\* a sentence of 7 words: one word short of the window
Words7 == <<"s","e","v","e","n"," ","w","e"," ","a","l","l"," ","c","a","n"," ","s","e","e"," ","t","h","a","t"," ","i","t">>

\* a sentence of 8 words: the fewest words kept
Words8 == <<"e","i","g","h","t"," ","w","e"," ","a","l","l"," ","c","a","n"," ","s","e","e"," ","t","h","a","t"," ","i","t"," ","i","s">>

\* a sentence of 30 words: the most words kept
Words30 == <<"t","h","i","r","t","y"," ","w","e"," ","a","l","l"," ","c","a","n"," ","s","e","e"," ","t","h","a","t"," ","i","t"," ","i","s"," ","s","o"," ","a","n","d"," ","w","e"," ","m","a","y"," ","s","a","y"," ","i","t"," ","a","s"," ","w","e"," ","g","o"," ","o","n"," ","w","e"," ","a","l","l"," ","c","a","n"," ","s","e","e"," ","t","h","a","t"," ","i","t"," ","i","s"," ","s","o"," ","a","n","d"," ","w","e"," ","m","a","y"," ","s","a","y">>

\* a sentence of 31 words: one word past the window
Words31 == <<"m","o","r","e"," ","w","e"," ","a","l","l"," ","c","a","n"," ","s","e","e"," ","t","h","a","t"," ","i","t"," ","i","s"," ","s","o"," ","a","n","d"," ","w","e"," ","m","a","y"," ","s","a","y"," ","i","t"," ","a","s"," ","w","e"," ","g","o"," ","o","n"," ","w","e"," ","a","l","l"," ","c","a","n"," ","s","e","e"," ","t","h","a","t"," ","i","t"," ","i","s"," ","s","o"," ","a","n","d"," ","w","e"," ","m","a","y"," ","s","a","y"," ","i","t">>

\* an essay with a sentence at each edge of the 8 to 30 word window
BodyEdges ==
  Words7 \o SentenceSeparator \o Words8 \o SentenceSeparator
    \o Words30 \o SentenceSeparator \o Words31 \o <<".">>

Bodies == {Body7, Body9, Body7Late, Body7Mid, BodyEdges}

\* the depth of nested calls the interpreter allows the JSON decoder
RecursionLimit == 4

\* body_paragraphs: a JSON list of one paragraph
ParasValid == <<"[", "\"", "a", "\"", "]">>

\* body_paragraphs cut short: not JSON
ParasInvalid == <<"[", "\"", "a">>

\* body_paragraphs nested deeper than the decoder can follow
ParasDeep == [i \in 1..(RecursionLimit + 1) |-> "["]

ParagraphTexts == {ParasValid, ParasInvalid, ParasDeep}

EssayRow(n, body_text, body_paragraphs) ==
  [essay_number |-> n, body_text |-> body_text, body_paragraphs |-> body_paragraphs]

DbChoices ==
  { <<>>,
    <<EssayRow(7, Some(Body7), Some(ParasValid)), EssayRow(9, Some(Body9), None)>>,
    <<EssayRow(7, Some(Body7), Some(ParasInvalid)), EssayRow(9, None, Some(<<>>))>>,
    <<EssayRow(7, Some(Body7Late), None), EssayRow(9, Some(Body9), Some(ParasValid))>>,
    <<EssayRow(7, Some(Body7Mid), Some(ParasValid))>>,
    <<EssayRow(7, Some(BodyEdges), None)>>,
    <<EssayRow(7, Some(Body7), Some(ParasDeep)), EssayRow(9, Some(Body9), Some(ParasValid))>> }

Contexts == {CtxEmpty, CtxPolicy, CtxTech, CtxCities}

\* a top_k above the number of phrases the passes can find for CtxFamilies
LargeK == 5

\* top_k ranges over -MaxNegK..MaxK
MaxK == 3

MaxNegK == 1

TopKs == (0 - MaxNegK)..MaxK

ReadIdChoices == {None, Some(<<>>), Some(<<7>>), Some(<<9>>), Some(<<7, 9>>), Some(<<5>>)}


----------------------------------------------------------------------------
(* app/data/writing_corpus.py: the loaders *)

RECURSIVE Flatten(_)
Flatten(seqs) ==
  IF seqs = <<>> THEN <<>> ELSE Head(seqs) \o Flatten(Tail(seqs))

\* the window one word wider at each end
ExtractSentencesWide(body_text) ==
  LET parts     == Split(body_text, SentenceSeparator)
      stripped  == [i \in 1..Len(parts) |-> Strip(parts[i])]
      sentences == SelectSeq(stripped, LAMBDA s : s # <<>>)
  IN  SelectSeq(sentences,
                LAMBDA s : /\ 7 <= Len(SplitWords(s)) /\ Len(SplitWords(s)) <= 31)

\* lines 53-57: the sentences of one body text that have 8 to 30 words
ExtractSentences(body_text) ==
  LET parts     == Split(body_text, SentenceSeparator)
      stripped  == [i \in 1..Len(parts) |-> Strip(parts[i])]
      sentences == SelectSeq(stripped, LAMBDA s : s # <<>>)
  IN  SelectSeq(sentences,
                LAMBDA s : /\ 8 <= Len(SplitWords(s)) /\ Len(SplitWords(s)) <= 30)

\* What extraction yields for a body does not depend on the state: it is
\* computed once for the bodies the model draws from, and looked up after.
ExtractTable == [b \in Bodies |-> ExtractSentences(b)]

\* lines 51-57 for one essay
EssayPhrases(body_text) ==
  IF body_text = <<>> THEN <<>> ELSE ExtractTable[body_text]

\* the essays taken from the last to the first
IeltsPhrasesDescending(essays) ==
  Flatten([i \in 1..Len(essays) |->
             EssayPhrases(OrEmpty(essays[Len(essays) + 1 - i].body_text))])

\* lines 49-58: phrases, in essay order then sentence order
IeltsPhrases(essays) ==
  Flatten([i \in 1..Len(essays) |-> EssayPhrases(OrEmpty(essays[i].body_text))])

\* no except clause: the failure of the query leaves _load_ielts_data
LoadIeltsDataUncaught(query_ok, essays) ==
  IF query_ok THEN [raised |-> FALSE, value |-> IeltsPhrases(essays)]
  ELSE [raised |-> TRUE, value |-> <<>>]

\* the except clause returning the phrases gathered before the failure
LoadIeltsDataPartial(query_ok, essays) ==
  IF query_ok THEN [raised |-> FALSE, value |-> IeltsPhrases(essays)]
  ELSE [raised |-> FALSE,
        value |-> IF essays = <<>> THEN <<>> ELSE IeltsPhrases(<<essays[1]>>)]

\* lines 44-63: _load_ielts_data; query_ok is whether the query went through.
\* The except clause turns any failure into the empty list.
LoadIeltsData(query_ok, essays) ==
  IF query_ok THEN [raised |-> FALSE, value |-> IeltsPhrases(essays)]
  ELSE [raised |-> FALSE, value |-> <<>>]

\* json.loads: what it returns, or the exception it raises.  A decoded value
\* is [kind, value]: a string with its characters, a number with its digits,
\* an array with its items, an object with its members [key, val] in
\* insertion order.  The texts the model decodes hold strings without
\* escapes, unsigned integers, arrays and objects.
JsonOk(kind, v, next) == [raised |-> "none", kind |-> kind, value |-> v, next |-> next]

JsonError(name) == [raised |-> name, kind |-> "none", value |-> <<>>, next |-> 0]

Digits == {"0", "1", "2", "3", "4", "5", "6", "7", "8", "9"}

\* the first position from i on that holds no whitespace
RECURSIVE SkipWs(_, _)
SkipWs(s, i) ==
  IF i <= Len(s) /\ s[i] \in Whitespace THEN SkipWs(s, i + 1) ELSE i

\* the first position from i on that holds no digit
RECURSIVE DigitsEnd(_, _)
DigitsEnd(s, i) ==
  IF i <= Len(s) /\ s[i] \in Digits THEN DigitsEnd(s, i + 1) ELSE i

\* the place of the quote that closes the string opened before position i
RECURSIVE ClosingQuote(_, _)
ClosingQuote(s, i) ==
  IF i > Len(s) THEN 0 ELSE IF s[i] = "\"" THEN i ELSE ClosingQuote(s, i + 1)

\* d[key] = val of a dict kept as its members in insertion order
DictSet(members, key, val) ==
  IF \E i \in 1..Len(members) : members[i].key = key
  THEN [i \in 1..Len(members) |->
          IF members[i].key = key THEN [key |-> key, val |-> val] ELSE members[i]]
  ELSE Append(members, [key |-> key, val |-> val])

\* the decoder on the value that starts at or after s[i], depth containers deep
RECURSIVE JsonValue(_, _, _), JsonValueAt(_, _, _), JsonItems(_, _, _, _),
          JsonItemNext(_, _, _, _), JsonMembers(_, _, _, _), JsonMemberColon(_, _, _, _, _),
          JsonMemberEnd(_, _, _, _, _), JsonMemberNext(_, _, _, _)
JsonValue(s, i, depth) == JsonValueAt(s, SkipWs(s, i), depth)

JsonValueAt(s, i, depth) ==
  IF i > Len(s) THEN JsonError("JSONDecodeError")
  ELSE IF s[i] = "[" THEN
         IF depth + 1 > RecursionLimit THEN JsonError("RecursionError")
         ELSE IF SkipWs(s, i + 1) <= Len(s) /\ s[SkipWs(s, i + 1)] = "]"
              THEN JsonOk("array", <<>>, SkipWs(s, i + 1) + 1)
         ELSE JsonItems(s, depth + 1, <<>>, JsonValue(s, i + 1, depth + 1))
  ELSE IF s[i] = "{" THEN
         IF depth + 1 > RecursionLimit THEN JsonError("RecursionError")
         ELSE IF SkipWs(s, i + 1) <= Len(s) /\ s[SkipWs(s, i + 1)] = "}"
              THEN JsonOk("object", <<>>, SkipWs(s, i + 1) + 1)
         ELSE JsonMembers(s, depth + 1, <<>>, SkipWs(s, i + 1))
  ELSE IF s[i] = "\"" THEN
         IF ClosingQuote(s, i + 1) = 0 THEN JsonError("JSONDecodeError")
         ELSE JsonOk("string", SubSeq(s, i + 1, ClosingQuote(s, i + 1) - 1),
                     ClosingQuote(s, i + 1) + 1)
  ELSE IF s[i] \in Digits THEN
         JsonOk("number", SubSeq(s, i, DigitsEnd(s, i) - 1), DigitsEnd(s, i))
  ELSE JsonError("JSONDecodeError")

\* v is the item just decoded; acc the items before it
JsonItems(s, depth, acc, v) ==
  IF v.raised # "none" THEN v
  ELSE JsonItemNext(s, depth, Append(acc, [kind |-> v.kind, value |-> v.value]),
                    SkipWs(s, v.next))

\* after an item: a comma and the next item, or the closing bracket
JsonItemNext(s, depth, acc, i) ==
  IF i > Len(s) THEN JsonError("JSONDecodeError")
  ELSE IF s[i] = "," THEN JsonItems(s, depth, acc, JsonValue(s, i + 1, depth))
  ELSE IF s[i] = "]" THEN JsonOk("array", acc, i + 1)
  ELSE JsonError("JSONDecodeError")

\* a member starts at s[i]: its key, a string
JsonMembers(s, depth, acc, i) ==
  IF i > Len(s) \/ s[i] # "\"" THEN JsonError("JSONDecodeError")
  ELSE IF ClosingQuote(s, i + 1) = 0 THEN JsonError("JSONDecodeError")
  ELSE JsonMemberColon(s, depth, acc, SubSeq(s, i + 1, ClosingQuote(s, i + 1) - 1),
                       SkipWs(s, ClosingQuote(s, i + 1) + 1))

\* the colon after the key, then the member's value
JsonMemberColon(s, depth, acc, key, i) ==
  IF i > Len(s) \/ s[i] # ":" THEN JsonError("JSONDecodeError")
  ELSE JsonMemberEnd(s, depth, acc, key, JsonValue(s, i + 1, depth))

\* v is the member's value just decoded
JsonMemberEnd(s, depth, acc, key, v) ==
  IF v.raised # "none" THEN v
  ELSE JsonMemberNext(s, depth, DictSet(acc, key, [kind |-> v.kind, value |-> v.value]),
                      SkipWs(s, v.next))

\* after a member: a comma and the next member, or the closing brace
JsonMemberNext(s, depth, acc, i) ==
  IF i > Len(s) THEN JsonError("JSONDecodeError")
  ELSE IF s[i] = "," THEN JsonMembers(s, depth, acc, SkipWs(s, i + 1))
  ELSE IF s[i] = "}" THEN JsonOk("object", acc, i + 1)
  ELSE JsonError("JSONDecodeError")

\* json.loads(s): one value and nothing but whitespace after it
JsonDecode(s, v) ==
  IF v.raised = "none" /\ SkipWs(s, v.next) <= Len(s) THEN JsonError("JSONDecodeError") ELSE v

JsonLoads(s) == JsonDecode(s, JsonValue(s, 1, 0))

JsonTable == [s \in ParagraphTexts |-> JsonLoads(s)]

\* lines 98-103: body_paragraphs of one essay.  A JSONDecodeError leaves the
\* empty list; any other exception of json.loads leaves the loop
BodyParagraphs(body_paragraphs) ==
  IF body_paragraphs.isNone \/ body_paragraphs.val = <<>> THEN JsonOk("array", <<>>, 0)
  ELSE IF JsonTable[body_paragraphs.val].raised = "JSONDecodeError" THEN JsonOk("array", <<>>, 0)
  ELSE JsonTable[body_paragraphs.val]

\* lines 104-114: one row as the dict get_ielts_essays hands out
EssayDict(essay) ==
  [essay_number    |-> essay.essay_number,
   body_paragraphs |-> BodyParagraphs(essay.body_paragraphs).value,
   body_text       |-> OrEmpty(essay.body_text)]

\* lines 93-122: the load of get_ielts_essays; value is stored and returned.
\* The except clause stores and returns the empty list.
LoadEssays(query_ok, essays) ==
  IF query_ok /\ \A i \in 1..Len(essays) :
                   BodyParagraphs(essays[i].body_paragraphs).raised = "none"
  THEN [raised |-> FALSE, value |-> [i \in 1..Len(essays) |-> EssayDict(essays[i])]]
  ELSE [raised |-> FALSE, value |-> <<>>]

\* the test written  if cache:  an empty list counts as unset
CacheTruthy(cache) == ~cache.isNone /\ cache.val # <<>>

\* the test that never finds the cache
CacheNeverHit(cache) == FALSE

\* lines 74 and 90: the cache is used when it  is not None
CacheHit(cache) == ~cache.isNone


----------------------------------------------------------------------------
(* app/services/rag_retriever.py: retrieve_similar_continuations *)

\* lines 32-40: the category lexicon, in declaration order
keywords ==
  << [category |-> "technology", words |-> << <<"t","e","c","h","n","o","l","o","g","y">>, <<"i","n","t","e","r","n","e","t">>, <<"d","i","g","i","t","a","l">>, <<"o","n","l","i","n","e">>, <<"a","i">>, <<"a","p","p">>, <<"s","m","a","r","t","p","h","o","n","e">>, <<"c","o","m","p","u","t","e","r">>, <<"s","o","f","t","w","a","r","e">> >>],
     [category |-> "environment", words |-> << <<"e","n","v","i","r","o","n","m","e","n","t">>, <<"p","o","l","l","u","t","i","o","n">>, <<"c","l","i","m","a","t","e">>, <<"c","a","r","b","o","n">>, <<"e","c","o">>, <<"g","r","e","e","n">>, <<"b","i","o","d","i","v","e","r","s","i","t","y">>, <<"s","p","e","c","i","e","s">>, <<"e","x","t","i","n","c","t","i","o","n">> >>],
     [category |-> "education", words |-> << <<"e","d","u","c","a","t","i","o","n">>, <<"s","c","h","o","o","l">>, <<"s","t","u","d","e","n","t">>, <<"l","e","a","r","n">>, <<"t","e","a","c","h">>, <<"a","c","a","d","e","m","i","c">>, <<"u","n","i","v","e","r","s","i","t","y">>, <<"d","e","g","r","e","e">>, <<"q","u","a","l","i","f","i","c","a","t","i","o","n">> >>],
     [category |-> "society", words |-> << <<"s","o","c","i","e","t","y">>, <<"g","o","v","e","r","n","m","e","n","t">>, <<"p","o","l","i","c","y">>, <<"l","a","w">>, <<"p","e","o","p","l","e">>, <<"s","o","c","i","a","l">>, <<"p","o","p","u","l","a","t","i","o","n">>, <<"c","o","m","m","u","n","i","t","y">>, <<"c","i","t","i","z","e","n">> >>],
     [category |-> "health", words |-> << <<"h","e","a","l","t","h">>, <<"m","e","d","i","c","a","l">>, <<"d","o","c","t","o","r">>, <<"t","r","e","a","t","m","e","n","t">>, <<"d","i","s","e","a","s","e">>, <<"h","e","a","l","t","h","c","a","r","e">>, <<"m","e","d","i","c","i","n","e">> >>],
     [category |-> "economy", words |-> << <<"e","c","o","n","o","m","y">>, <<"e","c","o","n","o","m","i","c">>, <<"b","u","s","i","n","e","s","s">>, <<"w","o","r","k">>, <<"e","m","p","l","o","y","m","e","n","t">>, <<"j","o","b">>, <<"i","n","c","o","m","e">>, <<"m","o","n","e","y">>, <<"f","i","n","a","n","c","i","a","l">> >>],
     [category |-> "general", words |-> << <<"i","m","p","o","r","t","a","n","t">>, <<"i","s","s","u","e">>, <<"p","r","o","b","l","e","m">>, <<"s","o","l","u","t","i","o","n">>, <<"s","t","u","d","y">>, <<"r","e","s","e","a","r","c","h">>, <<"b","e","n","e","f","i","t">>, <<"a","d","v","a","n","t","a","g","e">>, <<"d","i","s","a","d","v","a","n","t","a","g","e">> >>] >>

\* line 109: the marker words of the general academic phrases
MarkerWords ==
  << <<"e","m","p","i","r","i","c","a","l">>, <<"d","e","b","a","t","e">>, <<"w","a","r","r","a","n","t","s">>, <<"e","v","i","d","e","n","c","e">>, <<"a","r","g","u","e">>, <<"c","o","n","c","l","u","d","e">> >>

\* lines 24-29: the sentences of one read essay that have 8 to 30 words
ReadSentencesOf(body_text) ==
  LET parts     == Split(body_text, SentenceSeparator)
      stripped  == [i \in 1..Len(parts) |-> Strip(parts[i])]
      sentences == SelectSeq(stripped, LAMBDA s : s # <<>>)
  IN  SelectSeq(sentences,
                LAMBDA s : /\ 8 <= Len(SplitWords(s)) /\ Len(SplitWords(s)) <= 30)

\* any(w in text for w in words)
AnyIn(words, text) == \E i \in 1..Len(words) : Contains(words[i], text)

\* What the passes compute on a text does not depend on the state: it is
\* computed once for the texts the model draws from, and looked up after.
Texts ==
  {WRITING_CORPUS[i] : i \in 1..Len(WRITING_CORPUS)}
    \cup UNION {{ExtractSentences(b)[i] : i \in 1..Len(ExtractSentences(b))} : b \in Bodies}
    \cup UNION {{ReadSentencesOf(b)[i] : i \in 1..Len(ReadSentencesOf(b))} : b \in Bodies}

LowerContexts ==
  {Lower(c) : c \in Contexts \cup {CtxFamilies, CtxClimate, TextA, TextB}
                      \cup {Strip(Window(x)) : x \in SuggestTexts}}

ReadSentencesTable == [b \in Bodies |-> ReadSentencesOf(b)]

KeywordTable == [ci \in 1..Len(keywords), t \in Texts |-> AnyIn(keywords[ci].words, Lower(t))]

GateTable == [ci \in 1..Len(keywords), c \in LowerContexts |-> AnyIn(keywords[ci].words, c)]

\* lines 58 and 89: set(context_lower.split())
ContextWords == [c \in LowerContexts |-> WordSet(c)]

\* lines 63 and 94: set(sentence.lower().split())
SentenceWords == [t \in Texts |-> WordSet(Lower(t))]

OverlapTable ==
  [c \in LowerContexts, t \in Texts |-> Cardinality(ContextWords[c] \cap SentenceWords[t])]

MarkerTable == [t \in Texts |-> AnyIn(MarkerWords, Lower(t))]

\* lines 21-29 for one essay of all_essays
ReadSentences(body_text) ==
  IF body_text = <<>> THEN <<>> ELSE ReadSentencesTable[body_text]

\* lines 49-50 and 80-81: any(kw in sentence.lower() for kw in words)
HasKeyword(ci, sentence) == KeywordTable[ci, sentence]

\* lines 47 and 78: any(w in context_lower for w in words)
Gated(ci, context_lower) == GateTable[ci, context_lower]

\* lines 58, 63-64 and 89, 94-96: len(context_words & sentence_words)
Overlap(context_lower, sentence) == OverlapTable[context_lower, sentence]

\* line 109: any(word in p.lower() for word in [...])
HasMarker(p) == MarkerTable[p]

\* the sentences gathered id by id, in the order of read_essay_ids
ReadEssaySentencesByIds(read_essay_ids, all_essays) ==
  Flatten([k \in 1..Len(read_essay_ids) |->
             Flatten([i \in 1..Len(all_essays) |->
                        IF all_essays[i].essay_number = read_essay_ids[k]
                        THEN ReadSentences(all_essays[i].body_text)
                        ELSE <<>>])])

\* lines 16-29: read_essay_sentences, in essay order then sentence order
ReadEssaySentences(read_essay_ids, all_essays) ==
  Flatten([i \in 1..Len(all_essays) |->
             IF InList(all_essays[i].essay_number, read_essay_ids)
             THEN ReadSentences(all_essays[i].body_text)
             ELSE <<>>])

\* the scan without its  return matched[:top_k]
RECURSIVE ScanPoolNoReturn(_, _, _, _, _)
ScanPoolNoReturn(pool, i, ci, top_k, st) ==
  IF i > Len(pool) THEN st
  ELSE IF HasKeyword(ci, pool[i]) /\ ~InList(pool[i], st.matched)
       THEN ScanPoolNoReturn(pool, i + 1, ci, top_k,
                             [matched |-> Append(st.matched, pool[i]), returned |-> FALSE])
       ELSE ScanPoolNoReturn(pool, i + 1, ci, top_k, st)

\* lines 48-54 and 79-85: one category's scan of a pool from position i on;
\* st is [matched, returned], returned once the  return matched[:top_k]  ran
RECURSIVE ScanPool(_, _, _, _, _)
ScanPool(pool, i, ci, top_k, st) ==
  IF st.returned \/ i > Len(pool) THEN st
  ELSE IF HasKeyword(ci, pool[i])
       THEN LET m == IF InList(pool[i], st.matched) THEN st.matched
                     ELSE Append(st.matched, pool[i])
            IN  ScanPool(pool, i + 1, ci, top_k,
                         [matched |-> m, returned |-> Len(m) >= top_k])
       ELSE ScanPool(pool, i + 1, ci, top_k, st)

\* the keyword pass scanning every category, gated by the context or not
RECURSIVE KeywordPassUngated(_, _, _, _, _)
KeywordPassUngated(pool, ci, context_lower, top_k, st) ==
  IF st.returned \/ ci > Len(keywords) THEN st
  ELSE KeywordPassUngated(pool, ci + 1, context_lower, top_k,
                          ScanPool(pool, 1, ci, top_k, st))

\* the keyword pass visiting the categories from the last declared to the first
RECURSIVE KeywordPassLastFirst(_, _, _, _, _)
KeywordPassLastFirst(pool, ci, context_lower, top_k, st) ==
  IF st.returned \/ ci > Len(keywords) THEN st
  ELSE IF Gated(Len(keywords) + 1 - ci, context_lower)
       THEN KeywordPassLastFirst(pool, ci + 1, context_lower, top_k,
                                 ScanPool(pool, 1, Len(keywords) + 1 - ci, top_k, st))
       ELSE KeywordPassLastFirst(pool, ci + 1, context_lower, top_k, st)

\* lines 46-54 and 77-85: the keyword pass over the categories from ci on
RECURSIVE KeywordPass(_, _, _, _, _)
KeywordPass(pool, ci, context_lower, top_k, st) ==
  IF st.returned \/ ci > Len(keywords) THEN st
  ELSE IF Gated(ci, context_lower)
       THEN KeywordPass(pool, ci + 1, context_lower, top_k,
                        ScanPool(pool, 1, ci, top_k, st))
       ELSE KeywordPass(pool, ci + 1, context_lower, top_k, st)

\* a descending sort that puts the later of two equal overlaps first
RECURSIVE SortByOverlapLastTie(_)
SortByOverlapLastTie(scored) ==
  IF scored = <<>> THEN <<>>
  ELSE LET best == CHOOSE i \in 1..Len(scored) :
                     /\ \A j \in 1..Len(scored) : scored[j].overlap <= scored[i].overlap
                     /\ \A j \in (i + 1)..Len(scored) : scored[j].overlap < scored[i].overlap
       IN  <<scored[best]>>
             \o SortByOverlapLastTie([j \in 1..(Len(scored) - 1) |->
                                        IF j < best THEN scored[j] ELSE scored[j + 1]])

\* list.sort(reverse=True, key=overlap): descending and stable
RECURSIVE SortByOverlap(_)
SortByOverlap(scored) ==
  IF scored = <<>> THEN <<>>
  ELSE LET best == CHOOSE i \in 1..Len(scored) :
                     /\ \A j \in 1..Len(scored) : scored[j].overlap <= scored[i].overlap
                     /\ \A j \in 1..(i - 1) : scored[j].overlap < scored[i].overlap
       IN  <<scored[best]>>
             \o SortByOverlap([j \in 1..(Len(scored) - 1) |->
                                 IF j < best THEN scored[j] ELSE scored[j + 1]])

\* lines 69-72 and 102-105: append, leaving the loop once top_k is reached
RECURSIVE AppendUntil(_, _, _, _)
AppendUntil(items, i, top_k, matched) ==
  IF i > Len(items) THEN matched
  ELSE LET m == Append(matched, items[i].sentence)
       IN  IF Len(m) >= top_k THEN m ELSE AppendUntil(items, i + 1, top_k, m)

\* lines 58-72 and 89-105: the word-overlap pass over a pool
OverlapPass(pool, context_lower, top_k, matched) ==
  LET candidates == SelectSeq(pool, LAMBDA s : ~InList(s, matched))
      scored_all == [i \in 1..Len(candidates) |->
                       [overlap  |-> Overlap(context_lower, candidates[i]),
                        sentence |-> candidates[i]]]
      scored == SelectSeq(scored_all, LAMBDA x : x.overlap > 0)
      sorted == SortByOverlap(scored)
  IN  AppendUntil(PySlice(sorted, top_k - Len(matched)), 1, top_k, matched)

\* lines 110-114: the marker phrases not yet matched, until top_k
RECURSIVE AppendGeneral(_, _, _, _)
AppendGeneral(general_phrases, i, top_k, matched) ==
  IF i > Len(general_phrases) THEN matched
  ELSE IF InList(general_phrases[i], matched)
       THEN AppendGeneral(general_phrases, i + 1, top_k, matched)
       ELSE LET m == Append(matched, general_phrases[i])
            IN  IF Len(m) >= top_k THEN m
                ELSE AppendGeneral(general_phrases, i + 1, top_k, m)

\* the general pass taking corpus phrases whether or not they hold a marker
GeneralPassUnfiltered(corpus, top_k, matched) ==
  AppendGeneral(corpus, 1, top_k, matched)

\* lines 108-114: the general academic phrases
GeneralPass(corpus, top_k, matched) ==
  AppendGeneral(SelectSeq(corpus, LAMBDA p : HasMarker(p)), 1, top_k, matched)

NothingMatched == [matched |-> <<>>, returned |-> FALSE]

\* the read essays' overlap pass left out
ReadOverlapSkipped(context_lower, top_k, read_essay_sentences, a) == a

\* lines 56-72: the overlap pass over the read essays, after their keyword pass a
ReadOverlap(context_lower, top_k, read_essay_sentences, a) ==
  IF a.returned \/ ~(Len(a.matched) < top_k) THEN a
  ELSE [matched  |-> OverlapPass(read_essay_sentences, context_lower, top_k, a.matched),
        returned |-> FALSE]

\* lines 42-72: what the read essays contribute; [matched, returned]
ReadPass(context_lower, top_k, read_essay_sentences) ==
  IF read_essay_sentences = <<>> THEN NothingMatched
  ELSE ReadOverlap(context_lower, top_k, read_essay_sentences,
                   KeywordPass(read_essay_sentences, 1, context_lower, top_k, NothingMatched))

\* lines 107-114: the general phrases, after the corpus passes left b
CorpusGeneral(corpus, top_k, b) ==
  [matched |-> IF Len(b) < top_k THEN GeneralPass(corpus, top_k, b) ELSE b,
   returned |-> FALSE]

\* the general phrases taken before the corpus's overlap pass
CorpusOverlapGeneralFirst(context_lower, top_k, corpus, a) ==
  IF a.returned THEN a
  ELSE [matched |-> IF Len(CorpusGeneral(corpus, top_k, a.matched).matched) < top_k
                    THEN OverlapPass(corpus, context_lower, top_k,
                                     CorpusGeneral(corpus, top_k, a.matched).matched)
                    ELSE CorpusGeneral(corpus, top_k, a.matched).matched,
        returned |-> FALSE]

\* lines 87-114: the overlap pass over the corpus, after its keyword pass a
CorpusOverlap(context_lower, top_k, corpus, a) ==
  IF a.returned THEN a
  ELSE CorpusGeneral(corpus, top_k,
                     IF Len(a.matched) < top_k
                     THEN OverlapPass(corpus, context_lower, top_k, a.matched)
                     ELSE a.matched)

\* lines 75-114: what the corpus adds to matched; [matched, returned]
CorpusPass(context_lower, top_k, corpus, matched) ==
  IF ~(Len(matched) < top_k) THEN [matched |-> matched, returned |-> FALSE]
  ELSE CorpusOverlap(context_lower, top_k, corpus,
                     KeywordPass(corpus, 1, context_lower, top_k,
                                 [matched |-> matched, returned |-> FALSE]))

\* lines 74-116, r being what the read essays contributed
AfterReadPass(context_lower, top_k, corpus, r) ==
  IF r.returned THEN PySlice(r.matched, top_k)
  ELSE PySlice(CorpusPass(context_lower, top_k, corpus, r.matched).matched, top_k)

\* lines 42-116 on the lowered context
RetrieveLower(context_lower, top_k, read_essay_sentences, corpus) ==
  AfterReadPass(context_lower, top_k, corpus,
                ReadPass(context_lower, top_k, read_essay_sentences))

\* lines 13-116 once corpus and read_essay_sentences are known
Retrieve(context, top_k, read_essay_sentences, corpus) ==
  RetrieveLower(Lower(context), top_k, read_essay_sentences, corpus)

----------------------------------------------------------------------------
(* app/services/suggest_service.py and the /suggest operation of app/main.py *)

\* json.dumps(v, ensure_ascii=False): ", " between items, ": " after a key
RECURSIVE JsonDumps(_, _), DumpItems(_, _), DumpMembers(_, _)
JsonDumps(kind, value) ==
  IF kind = "string" THEN <<"\"">> \o value \o <<"\"">>
  ELSE IF kind = "number" THEN value
  ELSE IF kind = "array" THEN <<"[">> \o DumpItems(value, 1) \o <<"]">>
  ELSE <<"{">> \o DumpMembers(value, 1) \o <<"}">>

DumpItems(items, i) ==
  IF i > Len(items) THEN <<>>
  ELSE (IF i > 1 THEN <<",", " ">> ELSE <<>>)
         \o JsonDumps(items[i].kind, items[i].value) \o DumpItems(items, i + 1)

DumpMembers(members, i) ==
  IF i > Len(members) THEN <<>>
  ELSE (IF i > 1 THEN <<",", " ">> ELSE <<>>)
         \o <<"\"">> \o members[i].key \o <<"\"", ":", " ">>
         \o JsonDumps(members[i].val.kind, members[i].val.value)
         \o DumpMembers(members, i + 1)

\* the key of the answer
SuggestionsKey == <<"s","u","g","g","e","s","t","i","o","n","s">>

EmptyArray == [kind |-> "array", value |-> <<>>]

\* {"suggestions": []}
EmptySuggestions ==
  [kind |-> "object", value |-> <<[key |-> SuggestionsKey, val |-> EmptyArray]>>]

\* suggest_service.py lines 17 and 124: json.dumps({"suggestions": []})
SafeEmptyResponse == JsonDumps(EmptySuggestions.kind, EmptySuggestions.value)

\* re.search(r"\{.*\}", result, re.DOTALL): from the first opening brace to
\* the last closing brace after it; None without such a pair
RegexBraces(result) ==
  IF \E i, j \in 1..Len(result) : i < j /\ result[i] = "{" /\ result[j] = "}"
  THEN Some(SubSeq(result,
                   CHOOSE i \in 1..Len(result) :
                     /\ result[i] = "{"
                     /\ \A h \in 1..(i - 1) : result[h] # "{",
                   CHOOSE j \in 1..Len(result) :
                     /\ result[j] = "}"
                     /\ \A h \in (j + 1)..Len(result) : result[h] # "}"))
  ELSE None

\* what the model may send back as message.content
ReplyObject == <<"{","\"","s","u","g","g","e","s","t","i","o","n","s","\"",":","[","\"","a","\"","]","}">>

ReplyNoKey == <<"{","\"","d","a","t","a","\"",":","1","}">>

ReplyNotList == <<"{","\"","s","u","g","g","e","s","t","i","o","n","s","\"",":","7","}">>

ReplyArray == <<"[","1","]">>

ReplyString == <<"\"","a","\"">>

ReplyNumber == <<"7">>

ReplyBlank == <<" ">>

ReplyProse == <<"o","k">>

ReplyWrapped == <<"s","o"," ","{","\"","s","u","g","g","e","s","t","i","o","n","s","\"",":","[","\"","a","\"","]","}","!">>

ReplyBroken == <<"{","a","}">>

LlmReplies ==
  {ReplyObject, ReplyNoKey, ReplyNotList, ReplyArray, ReplyString, ReplyNumber,
   ReplyBlank, ReplyProse, ReplyWrapped, ReplyBroken}

\* the call of the model raises, or completes with a content that may be None
LlmRaises == [raises |-> TRUE, content |-> None]

LlmOutcomes ==
  {LlmRaises} \cup {[raises |-> FALSE, content |-> c] : c \in {None} \cup {Some(r) : r \in LlmReplies}}

\* lines 118 and 120-124: the text between the braces decoded and dumped, or
\* the except clause when it cannot be decoded
DumpExtracted(match) ==
  IF JsonLoads(match).raised # "none" THEN SafeEmptyResponse
  ELSE JsonDumps(JsonLoads(match).kind, JsonLoads(match).value)

\* lines 108-124 on  result = (content or "").strip()
DumpParsed(result) ==
  IF result = <<>> THEN SafeEmptyResponse
  ELSE IF JsonLoads(result).raised = "none"
       THEN JsonDumps(JsonLoads(result).kind, JsonLoads(result).value)
  ELSE IF JsonLoads(result).raised # "JSONDecodeError" THEN SafeEmptyResponse
  ELSE IF RegexBraces(result).isNone THEN SafeEmptyResponse
  ELSE DumpExtracted(RegexBraces(result).val)

\* lines 99-124: what generate_suggestions returns for an outcome of the call
LlmResult(outcome) ==
  IF outcome.raises THEN SafeEmptyResponse
  ELSE DumpParsed(Strip(OrEmpty(outcome.content)))

LlmResultTable == [o \in LlmOutcomes |-> LlmResult(o)]

\* the texts generate_suggestions can return
SuggestionTexts == {SafeEmptyResponse} \cup {LlmResultTable[o] : o \in LlmOutcomes}

\* main.py lines 93-98: parse_json_response(result, default_key)
ParseJsonResponse(result, default_key) ==
  IF JsonLoads(result).raised = "JSONDecodeError"
  THEN JsonOk("object", <<[key |-> default_key, val |-> EmptyArray]>>, 0)
  ELSE JsonLoads(result)

\* dict.get(key, default)
DictGet(members, key, default) ==
  IF \E i \in 1..Len(members) : members[i].key = key
  THEN members[CHOOSE i \in 1..Len(members) : members[i].key = key].val
  ELSE default

\* main.py lines 110-111: the answer of /suggest for what generate_suggestions
\* returned; a parsed value that is no dict has no  get
GetSuggestionsAnswer(parsed) ==
  IF parsed.raised # "none" THEN [status |-> "raised", value |-> <<>>]
  ELSE IF parsed.kind # "object" THEN [status |-> "raised", value |-> <<>>]
  ELSE [status |-> "returned",
        value  |-> <<[key |-> SuggestionsKey,
                      val |-> DictGet(parsed.value, SuggestionsKey, EmptyArray)]>>]

AnswerTable ==
  [s \in SuggestionTexts |-> GetSuggestionsAnswer(ParseJsonResponse(s, SuggestionsKey))]

----------------------------------------------------------------------------
(* The running program.  A caller is in one call at a time; a call is a     *)
(* retrieve_similar_continuations, or a get_writing_corpus or               *)
(* get_ielts_essays made by another service.  The steps of a call are the   *)
(* places where another caller's steps can fall between: the cache test,    *)
(* the query with the extraction, the store into the cache.                 *)

Threads == {"t1", "t2"}

\* the endpoints are coroutines that call the services without awaiting:
\* the server runs one request's call to its end before the next
MainThread == "t1"

\* the queries a run may make to the essays table
MaxLoads == 2

VARIABLES
  db_essays,             \* the rows of the essays table
  writing_corpus_cache,  \* _writing_corpus_cache
  ielts_essays_cache,    \* _ielts_essays_cache
  ielts_data_loads,      \* queries made by _load_ielts_data
  ielts_essays_loads,    \* queries made by get_ielts_essays
  pc,                    \* where each caller stands
  call,                  \* each caller's call: the function, its arguments, the caches at entry
  frame,                 \* each caller's local variables, and how its queries went
  result                 \* how each caller's call ended: its status and value

vars ==
  <<db_essays, writing_corpus_cache, ielts_essays_cache, ielts_data_loads,
    ielts_essays_loads, pc, call, frame, result>>

NoCall ==
  [op |-> "none", text |-> <<>>, context |-> <<>>, top_k |-> 0, read_essay_ids |-> None,
   corpus_cached |-> FALSE, essays_cached |-> FALSE]

NoFrame ==
  [corpus |-> <<>>, all_essays |-> <<>>, loaded |-> <<>>,
   corpus_query |-> "none", essays_query |-> "none", retrieved_examples |-> <<>>,
   suggestions_json |-> <<>>]

NoResult == [status |-> "none", value |-> <<>>]

RetrieveCalls(contexts, top_ks, id_choices) ==
  [op : {"retrieve"}, text : {<<>>}, context : contexts, top_k : top_ks,
   read_essay_ids : id_choices, corpus_cached : {FALSE}, essays_cached : {FALSE}]

\* generate_suggestions(text, cursor, read_essay_ids); context and top_k are
\* those of its call of retrieve, set when it makes the call
SuggestCalls(texts, id_choices) ==
  [op : {"generate_suggestions"}, text : texts, context : {<<>>}, top_k : {0},
   read_essay_ids : id_choices, corpus_cached : {FALSE}, essays_cached : {FALSE}]

\* POST /suggest: get_suggestions(request), which calls generate_suggestions
EndpointCalls(texts, id_choices) ==
  [op : {"suggest"}, text : texts, context : {<<>>}, top_k : {0},
   read_essay_ids : id_choices, corpus_cached : {FALSE}, essays_cached : {FALSE}]

\* the outcomes of the model's call drawn where the answer's form is not at stake
FewLlmOutcomes == {LlmRaises, [raises |-> FALSE, content |-> Some(ReplyObject)]}

LoaderCalls ==
  {[NoCall EXCEPT !.op = "get_writing_corpus"], [NoCall EXCEPT !.op = "get_ielts_essays"]}

\* the calls of the one-request-at-a-time program
Calls ==
  RetrieveCalls(Contexts, TopKs, ReadIdChoices)
    \cup RetrieveCalls({CtxFamilies}, {LargeK}, {None, Some(<<7>>)})
    \cup RetrieveCalls({CtxClimate}, {2, 3}, {None, Some(<<7>>), Some(<<7, 9>>)})
    \cup SuggestCalls({TextA, TextBlank}, {None, Some(<<7>>)})
    \cup EndpointCalls({TextA, TextBlank}, {None})
    \cup LoaderCalls

\* the calls of concurrent callers
ConcCalls ==
  RetrieveCalls({CtxPolicy}, {1}, {None, Some(<<7>>)})
    \cup SuggestCalls({TextA}, {None})
    \cup LoaderCalls

QueryOutcome(query_ok) == IF query_ok THEN "ok" ELSE "failed"

\* rag_retriever.py line 17:  if read_essay_ids
Truthy(ids) == ~ids.isNone /\ ids.val # <<>>

\* retrieve leaving at once when top_k <= 0
EntryShortCut(c) ==
  IF c.op = "get_ielts_essays" THEN "gie_test"
  ELSE IF c.op \in {"generate_suggestions", "suggest"} THEN "gs_test"
  ELSE IF c.op = "retrieve" /\ c.top_k <= 0 THEN "body"
  ELSE "gwc_test"

\* the first statement a call runs: retrieve starts with get_writing_corpus() (line 12)
Entry(c) ==
  IF c.op = "get_ielts_essays" THEN "gie_test"
  ELSE IF c.op \in {"generate_suggestions", "suggest"} THEN "gs_test"
  ELSE "gwc_test"

\* what follows the return of get_writing_corpus (rag_retriever.py lines 12-18)
AfterCorpus(c) ==
  IF c.op \in {"retrieve", "generate_suggestions", "suggest"} /\ Truthy(c.read_essay_ids)
  THEN "gie_test" ELSE "body"

InitWith(db_choices) ==
  /\ db_essays \in db_choices
  /\ writing_corpus_cache = None
  /\ ielts_essays_cache = None
  /\ ielts_data_loads = 0
  /\ ielts_essays_loads = 0
  /\ pc = [t \in Threads |-> "idle"]
  /\ call = [t \in Threads |-> NoCall]
  /\ frame = [t \in Threads |-> NoFrame]
  /\ result = [t \in Threads |-> NoResult]

Init == InitWith(DbChoices)

\* a caller enters a call
Call(t, c) ==
  /\ pc[t] = "idle"
  /\ pc' = [pc EXCEPT ![t] = Entry(c)]
  /\ call' = [call EXCEPT ![t] = [c EXCEPT !.corpus_cached = ~writing_corpus_cache.isNone,
                                           !.essays_cached = ~ielts_essays_cache.isNone]]
  /\ frame' = [frame EXCEPT ![t] = NoFrame]
  /\ result' = [result EXCEPT ![t] = NoResult]
  /\ UNCHANGED <<db_essays, writing_corpus_cache, ielts_essays_cache,
                 ielts_data_loads, ielts_essays_loads>>

\* writing_corpus.py lines 74-75
GwcTest(t) ==
  /\ pc[t] = "gwc_test"
  /\ IF CacheHit(writing_corpus_cache)
     THEN /\ frame' = [frame EXCEPT ![t].corpus = writing_corpus_cache.val]
          /\ pc' = [pc EXCEPT ![t] = AfterCorpus(call[t])]
     ELSE /\ frame' = frame
          /\ pc' = [pc EXCEPT ![t] = "gwc_load"]
  /\ UNCHANGED <<db_essays, writing_corpus_cache, ielts_essays_cache,
                 ielts_data_loads, ielts_essays_loads, call, result>>

\* writing_corpus.py line 77: _load_ielts_data(), its query succeeding or failing
GwcLoad(t) ==
  /\ pc[t] = "gwc_load"
  /\ ielts_data_loads < MaxLoads
  /\ \E query_ok \in BOOLEAN :
       LET r == LoadIeltsData(query_ok, db_essays)
       IN  IF r.raised
           THEN /\ result' = [result EXCEPT ![t] = [status |-> "raised", value |-> <<>>]]
                /\ frame' = [frame EXCEPT ![t].corpus_query = QueryOutcome(query_ok)]
                /\ pc' = [pc EXCEPT ![t] = "done"]
           ELSE /\ frame' = [frame EXCEPT ![t].loaded = r.value,
                                          ![t].corpus_query = QueryOutcome(query_ok)]
                /\ pc' = [pc EXCEPT ![t] = "gwc_store"]
                /\ result' = result
  /\ ielts_data_loads' = ielts_data_loads + 1
  /\ UNCHANGED <<db_essays, writing_corpus_cache, ielts_essays_cache, ielts_essays_loads, call>>

\* writing_corpus.py lines 78-79
GwcStore(t) ==
  /\ pc[t] = "gwc_store"
  /\ writing_corpus_cache' = Some(WRITING_CORPUS \o frame[t].loaded)
  /\ frame' = [frame EXCEPT ![t].corpus = WRITING_CORPUS \o frame[t].loaded,
                            ![t].loaded = <<>>]
  /\ pc' = [pc EXCEPT ![t] = AfterCorpus(call[t])]
  /\ UNCHANGED <<db_essays, ielts_essays_cache, ielts_data_loads, ielts_essays_loads,
                 call, result>>

\* writing_corpus.py lines 90-91
GieTest(t) ==
  /\ pc[t] = "gie_test"
  /\ IF CacheHit(ielts_essays_cache)
     THEN /\ frame' = [frame EXCEPT ![t].all_essays = ielts_essays_cache.val]
          /\ pc' = [pc EXCEPT ![t] = "body"]
     ELSE /\ frame' = frame
          /\ pc' = [pc EXCEPT ![t] = "gie_load"]
  /\ UNCHANGED <<db_essays, writing_corpus_cache, ielts_essays_cache,
                 ielts_data_loads, ielts_essays_loads, call, result>>

\* writing_corpus.py lines 93-114 and 117-118: the query and the dicts, or the failure
GieLoad(t) ==
  /\ pc[t] = "gie_load"
  /\ ielts_essays_loads < MaxLoads
  /\ \E query_ok \in BOOLEAN :
       LET r == LoadEssays(query_ok, db_essays)
       IN  IF r.raised
           THEN /\ result' = [result EXCEPT ![t] = [status |-> "raised", value |-> <<>>]]
                /\ frame' = [frame EXCEPT ![t].essays_query = QueryOutcome(query_ok)]
                /\ pc' = [pc EXCEPT ![t] = "done"]
           ELSE /\ frame' = [frame EXCEPT ![t].loaded = r.value,
                                          ![t].essays_query = QueryOutcome(query_ok)]
                /\ pc' = [pc EXCEPT ![t] = "gie_store"]
                /\ result' = result
  /\ ielts_essays_loads' = ielts_essays_loads + 1
  /\ UNCHANGED <<db_essays, writing_corpus_cache, ielts_essays_cache, ielts_data_loads, call>>

\* writing_corpus.py lines 115-116 and 119-120
GieStore(t) ==
  /\ pc[t] = "gie_store"
  /\ ielts_essays_cache' = Some(frame[t].loaded)
  /\ frame' = [frame EXCEPT ![t].all_essays = frame[t].loaded, ![t].loaded = <<>>]
  /\ pc' = [pc EXCEPT ![t] = "body"]
  /\ UNCHANGED <<db_essays, writing_corpus_cache, ielts_data_loads, ielts_essays_loads,
                 call, result>>

\* what the call returns once its caches are read
ReturnValue(c, f) ==
  IF c.op = "get_writing_corpus" THEN f.corpus
  ELSE IF c.op = "get_ielts_essays" THEN f.all_essays
  ELSE Retrieve(c.context, c.top_k,
                IF Truthy(c.read_essay_ids)
                THEN ReadEssaySentences(c.read_essay_ids.val, f.all_essays)
                ELSE <<>>,
                f.corpus)

\* rag_retriever.py lines 13-116, or the loader's return; inside
\* generate_suggestions the list goes to retrieved_examples (line 28)
Body(t) ==
  /\ pc[t] = "body"
  /\ IF call[t].op \in {"generate_suggestions", "suggest"}
     THEN /\ frame' = [frame EXCEPT ![t].retrieved_examples =
                                       ReturnValue(call[t], frame[t])]
          /\ pc' = [pc EXCEPT ![t] = "gs_llm"]
          /\ result' = result
     ELSE /\ result' = [result EXCEPT ![t] = [status |-> "returned",
                                              value  |-> ReturnValue(call[t], frame[t])]]
          /\ pc' = [pc EXCEPT ![t] = "done"]
          /\ frame' = frame
  /\ UNCHANGED <<db_essays, writing_corpus_cache, ielts_essays_cache,
                 ielts_data_loads, ielts_essays_loads, call>>

\* what generate_suggestions returns goes to its caller: to the client of the
\* service, or to get_suggestions (main.py line 109)
GsReturn(t, text) ==
  IF call[t].op = "suggest"
  THEN /\ frame' = [frame EXCEPT ![t].suggestions_json = text]
       /\ pc' = [pc EXCEPT ![t] = "suggest_parse"]
       /\ result' = result
  ELSE /\ result' = [result EXCEPT ![t] = [status |-> "returned", value |-> text]]
       /\ pc' = [pc EXCEPT ![t] = "done"]
       /\ frame' = frame

\* suggest_service.py lines 16-28: the empty answer for a blank text, or the
\* call of retrieve on the stripped window with top_k = 3
SuggestTest(t) ==
  /\ pc[t] = "gs_test"
  /\ IF Strip(call[t].text) = <<>>
     THEN /\ GsReturn(t, SafeEmptyResponse)
          /\ call' = call
     ELSE /\ call' = [call EXCEPT ![t].context = Strip(Window(call[t].text)),
                                  ![t].top_k = SuggestTopK]
          /\ pc' = [pc EXCEPT ![t] = "gwc_test"]
          /\ result' = result
          /\ frame' = frame
  /\ UNCHANGED <<db_essays, writing_corpus_cache, ielts_essays_cache,
                 ielts_data_loads, ielts_essays_loads>>

\* suggest_service.py lines 99-124: the model's call has one of the outcomes,
\* and its content is decoded and dumped, or the except clause returns the
\* safe empty response
SuggestLLM(t, outcomes) ==
  /\ pc[t] = "gs_llm"
  /\ \E o \in outcomes : GsReturn(t, LlmResultTable[o])
  /\ UNCHANGED <<db_essays, writing_corpus_cache, ielts_essays_cache,
                 ielts_data_loads, ielts_essays_loads, call>>

\* main.py lines 110-111: the answer of /suggest, or the exception that
\* leaves get_suggestions
GetSuggestions(t) ==
  /\ pc[t] = "suggest_parse"
  /\ result' = [result EXCEPT ![t] = AnswerTable[frame[t].suggestions_json]]
  /\ pc' = [pc EXCEPT ![t] = "done"]
  /\ UNCHANGED <<db_essays, writing_corpus_cache, ielts_essays_cache,
                 ielts_data_loads, ielts_essays_loads, call, frame>>

\* the caller has its answer and is free for the next call
Return(t) ==
  /\ pc[t] = "done"
  /\ pc' = [pc EXCEPT ![t] = "idle"]
  /\ call' = [call EXCEPT ![t] = NoCall]
  /\ frame' = [frame EXCEPT ![t] = NoFrame]
  /\ result' = [result EXCEPT ![t] = NoResult]
  /\ UNCHANGED <<db_essays, writing_corpus_cache, ielts_essays_cache,
                 ielts_data_loads, ielts_essays_loads>>

\* one request at a time
Next ==
  \/ \E c \in Calls : Call(MainThread, c)
  \/ GwcTest(MainThread)
  \/ GwcLoad(MainThread)
  \/ GwcStore(MainThread)
  \/ GieTest(MainThread)
  \/ GieLoad(MainThread)
  \/ GieStore(MainThread)
  \/ Body(MainThread)
  \/ SuggestTest(MainThread)
  \/ SuggestLLM(MainThread, LlmOutcomes)
  \/ GetSuggestions(MainThread)
  \/ Return(MainThread)

Spec == Init /\ [][Next]_vars

\* callers in threads of their own
ConcNext ==
  \E t \in Threads :
    \/ \E c \in ConcCalls : Call(t, c)
    \/ GwcTest(t)
    \/ GwcLoad(t)
    \/ GwcStore(t)
    \/ GieTest(t)
    \/ GieLoad(t)
    \/ GieStore(t)
    \/ Body(t)
    \/ SuggestTest(t)
    \/ SuggestLLM(t, FewLlmOutcomes)
    \/ Return(t)

\* concurrent callers over the table that holds both essays
ConcInit ==
  InitWith({<<EssayRow(7, Some(Body7), Some(ParasValid)), EssayRow(9, Some(Body9), None)>>})

ConcSpec == ConcInit /\ [][ConcNext]_vars

\* id lists that name the same essays in another order, twice, or beside an
\* id of no essay
SeqIdChoices ==
  {Some(<<>>), Some(<<5>>), Some(<<7, 5>>), Some(<<7, 7>>), Some(<<7, 9>>), Some(<<9, 7>>)}

\* the calls of two clients served in turn
SeqCalls ==
  RetrieveCalls({CtxPolicy, CtxCities}, {1, 2}, {None, Some(<<7>>)})
    \cup RetrieveCalls({CtxCities}, {2}, SeqIdChoices)
    \cup RetrieveCalls({TextA, TextB}, {SuggestTopK}, {None})
    \cup SuggestCalls(SuggestTexts, {None})
    \cup LoaderCalls

\* no other caller is inside a call: the server runs one call to its end
\* before it starts the next
Alone(t) == \A u \in Threads \ {t} : pc[u] \in {"idle", "done"}

\* two clients served in turn: a client may keep its answer while the other
\* client's calls run
SeqNext ==
  \E t \in Threads :
    \/ Alone(t) /\ \E c \in SeqCalls : Call(t, c)
    \/ Alone(t) /\ GwcTest(t)
    \/ Alone(t) /\ GwcLoad(t)
    \/ Alone(t) /\ GwcStore(t)
    \/ Alone(t) /\ GieTest(t)
    \/ Alone(t) /\ GieLoad(t)
    \/ Alone(t) /\ GieStore(t)
    \/ Alone(t) /\ Body(t)
    \/ Alone(t) /\ SuggestTest(t)
    \/ Alone(t) /\ SuggestLLM(t, FewLlmOutcomes)
    \/ Alone(t) /\ Return(t)

SeqSpec == ConcInit /\ [][SeqNext]_vars

----------------------------------------------------------------------------
(* Properties *)

\* a retrieve call that has returned
Retrieved(t) ==
  pc[t] = "done" /\ call[t].op = "retrieve" /\ result[t].status = "returned"

\* read_essay_sentences of caller t's call
ReadPool(t) ==
  IF Truthy(call[t].read_essay_ids)
  THEN ReadEssaySentences(call[t].read_essay_ids.val, frame[t].all_essays)
  ELSE <<>>

\* sentence s passes the keyword pass or the overlap pass for the context
Eligible(s, context_lower) ==
  \/ \E ci \in 1..Len(keywords) : Gated(ci, context_lower) /\ HasKeyword(ci, s)
  \/ Overlap(context_lower, s) > 0

\* the read sentences of caller t's call that are eligible for its context
EligibleRead(t) ==
  {ReadPool(t)[i] : i \in {j \in 1..Len(ReadPool(t)) :
                             Eligible(ReadPool(t)[j], Lower(call[t].context))}}

\* C1: for top_k >= 0 the list retrieve returns has at most top_k elements.
C1_AtMostTopK ==
  \A t \in Threads :
    (Retrieved(t) /\ call[t].top_k >= 0) => Len(result[t].value) <= call[t].top_k

\* a call with read essays that came back with exactly top_k >= 1 phrases
C1_Witness ==
  \E t \in Threads :
    /\ Retrieved(t)
    /\ call[t].top_k >= 1
    /\ ReadPool(t) # <<>>
    /\ Len(result[t].value) = call[t].top_k

\* C2: the list retrieve returns holds no string twice, whatever the pools hold.
C2_NoDuplicates ==
  \A t \in Threads :
    Retrieved(t) =>
      \A i, j \in 1..Len(result[t].value) :
        i # j => result[t].value[i] # result[t].value[j]

\* C3: with read_essay_ids given, the eligible read sentences come before every
\* other phrase of the result, and another phrase is there only when every
\* eligible read sentence is.
C3_ReadEssaysFirst ==
  \A t \in Threads :
    (Retrieved(t) /\ Truthy(call[t].read_essay_ids)) =>
      /\ \A i, j \in 1..Len(result[t].value) :
           (result[t].value[i] \notin EligibleRead(t) /\ result[t].value[j] \in EligibleRead(t))
             => j < i
      /\ (\E i \in 1..Len(result[t].value) : result[t].value[i] \notin EligibleRead(t))
           => \A s \in EligibleRead(t) : InList(s, result[t].value)

\* a result that holds an eligible read sentence and a phrase the corpus added
C3_Witness ==
  \E t \in Threads :
    /\ Retrieved(t)
    /\ Truthy(call[t].read_essay_ids)
    /\ \E i \in 1..Len(result[t].value) : result[t].value[i] \in EligibleRead(t)
    /\ \E i \in 1..Len(result[t].value) : result[t].value[i] \notin EligibleRead(t)

\* C4: with concurrent first callers each cache is assigned once: its value
\* never changes after it first is not None.
C4_PopulatedOnce ==
  [][/\ ~writing_corpus_cache.isNone => writing_corpus_cache' = writing_corpus_cache
     /\ ~ielts_essays_cache.isNone => ielts_essays_cache' = ielts_essays_cache]_vars

\* C5: no call of retrieve, of a loader or of generate_suggestions raises,
\* whatever its arguments and however its queries went.
C5_NeverRaises ==
  \A t \in Threads : call[t].op # "suggest" => result[t].status # "raised"

\* a retrieve call both of whose queries failed, and which returned
C5_Witness ==
  \E t \in Threads :
    /\ Retrieved(t)
    /\ frame[t].corpus_query = "failed"
    /\ frame[t].essays_query = "failed"

\* C6: a call whose _load_ielts_data failed returns, and leaves exactly the
\* static phrase list in the cache.
C6_StaticOnFailure ==
  \A t \in Threads :
    (pc[t] = "done" /\ frame[t].corpus_query = "failed") =>
      /\ call[t].op # "suggest" => result[t].status = "returned"
      /\ writing_corpus_cache = Some(WRITING_CORPUS)
      /\ frame[t].corpus = WRITING_CORPUS
      /\ call[t].op = "get_writing_corpus" => result[t].value = WRITING_CORPUS

\* a get_writing_corpus whose query failed over a table that holds sentences
C6_Witness ==
  \E t \in Threads :
    /\ pc[t] = "done"
    /\ call[t].op = "get_writing_corpus"
    /\ frame[t].corpus_query = "failed"
    /\ IeltsPhrases(db_essays) # <<>>

\* C7: with one call after the other, each loader queries the table once at
\* most, a cache once set keeps its value, and every call returns the cache.
C7_LoadedOnce ==
  /\ [](/\ ielts_data_loads <= 1
        /\ ielts_essays_loads <= 1
        /\ \A t \in Threads :
             /\ (pc[t] = "done" /\ call[t].op = "get_writing_corpus")
                  => result[t].value = writing_corpus_cache.val
             /\ (pc[t] = "done" /\ call[t].op = "get_ielts_essays")
                  => result[t].value = ielts_essays_cache.val
             /\ (call[t].corpus_cached /\ call[t].op # "get_ielts_essays")
                  => frame[t].corpus_query = "none"
             /\ call[t].essays_cached => frame[t].essays_query = "none")
  /\ [][/\ ~writing_corpus_cache.isNone => writing_corpus_cache' = writing_corpus_cache
        /\ ~ielts_essays_cache.isNone => ielts_essays_cache' = ielts_essays_cache]_vars

\* a later get_ielts_essays that returned the empty cache a failed load left,
\* over a table that holds essays
C7_Witness ==
  \E t \in Threads :
    /\ pc[t] = "done"
    /\ call[t].op = "get_ielts_essays"
    /\ call[t].essays_cached
    /\ ielts_essays_cache = Some(<<>>)
    /\ db_essays # <<>>
    /\ result[t].value = <<>>

\* C8: for top_k <= 0 retrieve returns the empty list.
C8_EmptyForNonPositive ==
  \A t \in Threads :
    (Retrieved(t) /\ call[t].top_k <= 0) => result[t].value = <<>>

\* a call with top_k < 0 whose read essays hold two sentences with a keyword
\* of a category the context gates
C8_Witness ==
  \E t \in Threads :
    /\ Retrieved(t)
    /\ call[t].top_k < 0
    /\ \E i, j \in 1..Len(ReadPool(t)), ci \in 1..Len(keywords) :
         /\ ReadPool(t)[i] # ReadPool(t)[j]
         /\ Gated(ci, Lower(call[t].context))
         /\ HasKeyword(ci, ReadPool(t)[i])
         /\ HasKeyword(ci, ReadPool(t)[j])

\* C9: a retrieve call with top_k <= 0 makes no query and leaves unset caches unset.
C9_UntouchedForNonPositive ==
  \A t \in Threads :
    (pc[t] = "done" /\ call[t].op = "retrieve" /\ call[t].top_k <= 0) =>
      /\ frame[t].corpus_query = "none"
      /\ frame[t].essays_query = "none"
      /\ ~call[t].corpus_cached => writing_corpus_cache.isNone
      /\ ~call[t].essays_cached => ielts_essays_cache.isNone

\* C9 as amended: a retrieve call with top_k <= 0 returns the empty list after
\* get_writing_corpus, and with read_essay_ids after get_ielts_essays too: a
\* cache that was unset is loaded and set, a cache that was set is not reloaded.
C9_LoadsForNonPositive ==
  \A t \in Threads :
    (pc[t] = "done" /\ call[t].op = "retrieve" /\ call[t].top_k <= 0) =>
      /\ result[t].value = <<>>
      /\ ~writing_corpus_cache.isNone
      /\ call[t].corpus_cached <=> frame[t].corpus_query = "none"
      /\ Truthy(call[t].read_essay_ids) =>
           /\ ~ielts_essays_cache.isNone
           /\ call[t].essays_cached <=> frame[t].essays_query = "none"
      /\ ~Truthy(call[t].read_essay_ids) =>
           /\ frame[t].essays_query = "none"
           /\ call[t].essays_cached <=> ~ielts_essays_cache.isNone

\* a call with top_k <= 0 that found the corpus cache unset, queried and set it
C9_Witness ==
  \E t \in Threads :
    /\ pc[t] = "done"
    /\ call[t].op = "retrieve"
    /\ call[t].top_k <= 0
    /\ ~call[t].corpus_cached
    /\ frame[t].corpus_query # "none"
    /\ ~writing_corpus_cache.isNone

\* the step is one of caller t's retrieve call
RetrieveStep(t) == call[t].op = "retrieve" /\ pc'[t] # pc[t]

\* C10: a retrieve call entered with the corpus cache set changes neither cache.
C10_ReadOnlyOnceCorpusCached ==
  [][\A t \in Threads :
       (RetrieveStep(t) /\ call[t].corpus_cached)
         => UNCHANGED <<writing_corpus_cache, ielts_essays_cache>>]_vars

\* C10 as amended: a retrieve call entered with the corpus cache set, and with
\* the essay cache set too when it has read_essay_ids, changes neither cache
\* and makes no query, whatever the other callers do meanwhile.
C10_ReadOnlyOnceCached ==
  [][\A t \in Threads :
       (/\ RetrieveStep(t)
        /\ call[t].corpus_cached
        /\ Truthy(call[t].read_essay_ids) => call[t].essays_cached)
         => UNCHANGED <<writing_corpus_cache, ielts_essays_cache,
                        ielts_data_loads, ielts_essays_loads>>]_vars

\* two retrieve calls under way at once, one with read essays that began with
\* both caches set and has returned
C10_Witness ==
  \E t, u \in Threads :
    /\ t # u
    /\ Retrieved(t)
    /\ Truthy(call[t].read_essay_ids)
    /\ call[t].corpus_cached
    /\ call[t].essays_cached
    /\ call[u].op = "retrieve"
    /\ pc[u] \notin {"idle", "done"}

\* the calls of t and u have the same arguments
SameArguments(t, u) ==
  /\ call[t].context = call[u].context
  /\ call[t].top_k = call[u].top_k
  /\ call[t].read_essay_ids = call[u].read_essay_ids

\* C11: two retrieve calls with the same arguments, served one after the
\* other over the same essays table, return the same list, whatever calls ran
\* between them and however the queries of the run went.
C11_SameArgumentsSameResult ==
  \A t, u \in Threads :
    (Retrieved(t) /\ Retrieved(u) /\ SameArguments(t, u))
      => result[t].value = result[u].value

\* two calls with read essays and the same arguments have returned a sentence
\* of the essays, the earlier having made a query that failed and the later
\* having found both caches set
C11_Witness ==
  \E t, u \in Threads :
    /\ t # u
    /\ Retrieved(t) /\ Retrieved(u) /\ SameArguments(t, u)
    /\ Truthy(call[t].read_essay_ids)
    /\ frame[t].corpus_query = "failed"
    /\ call[u].corpus_cached /\ call[u].essays_cached
    /\ \E i \in 1..Len(result[t].value) : result[t].value[i] \notin
         {WRITING_CORPUS[j] : j \in 1..Len(WRITING_CORPUS)}

\* the elements of seq at the positions idx, in the order of seq
AtPositions(seq, idx) ==
  [r \in 1..Cardinality(idx) |->
     seq[CHOOSE i \in idx : Cardinality({j \in idx : j < i}) = r - 1]]

\* seq without the later occurrences of an element that occurs earlier
FirstOccurrences(seq) ==
  AtPositions(seq, {i \in 1..Len(seq) : \A j \in 1..(i - 1) : seq[j] # seq[i]})

\* the first n elements of seq, all of them when seq is shorter
Prefix(seq, n) == [i \in 1..(IF n < Len(seq) THEN n ELSE Len(seq)) |-> seq[i]]

\* the phrases of the corpus that hold a marker word, once each, in corpus order
MarkerPhrases(corpus) ==
  FirstOccurrences(AtPositions(corpus, {i \in 1..Len(corpus) : HasMarker(corpus[i])}))

\* C12: for the empty context and top_k > 0 no sentence passes the keyword or
\* the overlap pass, and the result is the first top_k marker phrases of the
\* corpus in corpus order; for any context a returned phrase that passes
\* neither the keyword nor the overlap pass holds a marker word and is a
\* phrase of the corpus.
C12_GeneralPhrasesOnly ==
  \A t \in Threads :
    (Retrieved(t) /\ call[t].top_k > 0) =>
      /\ call[t].context = <<>> =>
           /\ \A s \in Texts : ~Eligible(s, Lower(call[t].context))
           /\ result[t].value = Prefix(MarkerPhrases(frame[t].corpus), call[t].top_k)
      /\ \A i \in 1..Len(result[t].value) :
           ~Eligible(result[t].value[i], Lower(call[t].context)) =>
             /\ HasMarker(result[t].value[i])
             /\ InList(result[t].value[i], frame[t].corpus)

\* a call with the empty context and read essays that hold sentences, which
\* returned marker phrases
C12_Witness ==
  \E t \in Threads :
    /\ Retrieved(t)
    /\ call[t].context = <<>>
    /\ call[t].top_k > 1
    /\ ReadPool(t) # <<>>
    /\ Len(result[t].value) = call[t].top_k

\* the place of the society category in the lexicon
SocietyCategory == CHOOSE ci \in 1..Len(keywords) : keywords[ci].category = "society"

\* the call of the scenario: "government policy on emissions", top_k = 1,
\* read_essay_ids = [7], returned with essay 7 among all_essays
PolicyCall(t) ==
  /\ Retrieved(t)
  /\ call[t].context = CtxPolicy
  /\ call[t].top_k = 1
  /\ call[t].read_essay_ids = Some(<<7>>)
  /\ \E i \in 1..Len(frame[t].all_essays) : frame[t].all_essays[i].essay_number = 7

\* s has 25 words and holds the keyword "policy"
PolicySentence25(s) ==
  /\ Len(SplitWords(s)) = 25
  /\ Contains(<<"p","o","l","i","c","y">>, Lower(s))

\* C13: in the scenario's call, a sentence of 25 words holding "policy"
\* among the read sentences of essay 7 is the one phrase returned, whatever
\* else the essay holds.
C13_PolicySentenceReturned ==
  \A t \in Threads :
    PolicyCall(t) =>
      \A i \in 1..Len(ReadPool(t)) :
        PolicySentence25(ReadPool(t)[i]) => result[t].value = <<ReadPool(t)[i]>>

\* C13 as amended: the context gates the society category alone, and the
\* scenario's call returns the first read sentence of essay 7, in essay
\* order, that holds a keyword of the society category.
C13_FirstSocietySentenceReturned ==
  /\ \A ci \in 1..Len(keywords) : Gated(ci, Lower(CtxPolicy)) <=> ci = SocietyCategory
  /\ \A t \in Threads :
       PolicyCall(t) =>
         \A i \in 1..Len(ReadPool(t)) :
           (/\ HasKeyword(SocietyCategory, ReadPool(t)[i])
            /\ \A j \in 1..(i - 1) : ~HasKeyword(SocietyCategory, ReadPool(t)[j]))
             => result[t].value = <<ReadPool(t)[i]>>

\* the scenario's call returned the 25-word sentence, which stands second in
\* essay 7
C13_Witness ==
  \E t \in Threads :
    /\ PolicyCall(t)
    /\ result[t].value = <<Sentence25>>
    /\ ReadPool(t)[1] # Sentence25

\* writing_corpus.py lines 11-15 and 23-27: the phrases listed under the
\* headings Technology and Education
TechnologyPhrases == {WRITING_CORPUS[i] : i \in 1..4}

EducationPhrases == {WRITING_CORPUS[i] : i \in 9..12}

\* a phrase of the technology or the education heading
Related(p) == p \in TechnologyPhrases \cup EducationPhrases

\* C14: for "the rapid growth of technology has changed education", top_k = 3
\* and no read essays, over the static corpus, the result starts with a
\* phrase of the technology or education heading and no other phrase stands
\* before one of them.
C14_RelatedPhrasesLead ==
  \A t \in Threads :
    (/\ Retrieved(t)
     /\ call[t].context = CtxTech
     /\ call[t].top_k = 3
     /\ ~Truthy(call[t].read_essay_ids)
     /\ frame[t].corpus = WRITING_CORPUS) =>
      /\ result[t].value # <<>>
      /\ Related(result[t].value[1])
      /\ \A i, j \in 1..Len(result[t].value) :
           (i < j /\ Related(result[t].value[j])) => Related(result[t].value[i])

\* the distinct phrases some pass can take for caller t's call: the read
\* sentences that pass the keyword or the overlap pass, and the corpus phrases
\* that pass one of them or hold a marker word
EligiblePhrases(t) ==
  EligibleRead(t)
    \cup {frame[t].corpus[i] : i \in {j \in 1..Len(frame[t].corpus) :
            \/ Eligible(frame[t].corpus[j], Lower(call[t].context))
            \/ HasMarker(frame[t].corpus[j])}}

\* C15: for top_k >= 0 the result has min(top_k, n) elements, n being the
\* number of distinct eligible phrases; when n < top_k every eligible phrase
\* is in the result once.
C15_LengthIsMinOfKAndEligible ==
  \A t \in Threads :
    (Retrieved(t) /\ call[t].top_k >= 0) =>
      LET n == Cardinality(EligiblePhrases(t))
      IN  /\ Len(result[t].value) = (IF call[t].top_k < n THEN call[t].top_k ELSE n)
          /\ n < call[t].top_k =>
               \A p \in EligiblePhrases(t) :
                 Cardinality({i \in 1..Len(result[t].value) : result[t].value[i] = p}) = 1

\* the ids of caller t's call that are the number of an essay of the table
KnownIds(t) ==
  IF call[t].read_essay_ids.isNone THEN {}
  ELSE {call[t].read_essay_ids.val[i] : i \in 1..Len(call[t].read_essay_ids.val)}
         \cap {db_essays[i].essay_number : i \in 1..Len(db_essays)}

\* C16: two retrieve calls with the same context and top_k whose
\* read_essay_ids name the same set of essays of the table return the same
\* list: the order of the ids, a repeated id, an id of no essay, and None or
\* an empty list instead of ids of no essay make no difference.
C16_IdsAsSet ==
  \A t, u \in Threads :
    (/\ Retrieved(t) /\ Retrieved(u)
     /\ call[t].context = call[u].context
     /\ call[t].top_k = call[u].top_k
     /\ KnownIds(t) = KnownIds(u))
      => result[t].value = result[u].value

\* two calls whose ids are the same two essays in opposite orders have both
\* returned sentences of the essays
C16_Witness ==
  \E t, u \in Threads :
    /\ Retrieved(t) /\ Retrieved(u)
    /\ call[t].context = call[u].context
    /\ call[t].top_k = call[u].top_k
    /\ call[t].read_essay_ids = Some(<<7, 9>>)
    /\ call[u].read_essay_ids = Some(<<9, 7>>)
    /\ ReadPool(t) # <<>>
    /\ result[t].value[1] = ReadPool(t)[2]

\* caller t's generate_suggestions has its retrieved_examples
Suggested(t) ==
  call[t].op = "generate_suggestions" /\ pc[t] = "done" /\ Strip(call[t].text) # <<>>

\* texts a and b have the same last 100 characters (all of them, for a text
\* of fewer)
SameLastCharacters(a, b) ==
  LET na == IF Len(a) < ContextWindow THEN Len(a) ELSE ContextWindow
      nb == IF Len(b) < ContextWindow THEN Len(b) ELSE ContextWindow
  IN  /\ na = nb
      /\ \A i \in 0..(na - 1) : a[Len(a) - i] = b[Len(b) - i]

\* C17: two retrieve calls with the same top_k and read_essay_ids whose
\* contexts have the same last 100 characters return the same list.
C17_RetrieveUsesWindow ==
  \A t, u \in Threads :
    (/\ Retrieved(t) /\ Retrieved(u)
     /\ call[t].top_k = call[u].top_k
     /\ call[t].read_essay_ids = call[u].read_essay_ids
     /\ SameLastCharacters(call[t].context, call[u].context))
      => result[t].value = result[u].value

\* C17 as amended: generate_suggestions calls retrieve on the stripped last
\* 100 characters of its text, so two generate_suggestions calls with the
\* same read_essay_ids whose texts have the same last 100 characters get the
\* same retrieved_examples.
C17_SuggestUsesWindow ==
  \A t, u \in Threads :
    (/\ Suggested(t) /\ Suggested(u)
     /\ call[t].read_essay_ids = call[u].read_essay_ids
     /\ SameLastCharacters(call[t].text, call[u].text))
      => /\ call[t].context = Strip(Window(call[t].text))
         /\ frame[t].retrieved_examples = frame[u].retrieved_examples

\* two generate_suggestions calls on texts that differ before the window
\* both have their three retrieved_examples
C17_Witness ==
  \E t, u \in Threads :
    /\ Suggested(t) /\ Suggested(u)
    /\ call[t].text # call[u].text
    /\ Len(call[t].text) > ContextWindow
    /\ SameLastCharacters(call[t].text, call[u].text)
    /\ Len(frame[t].retrieved_examples) = SuggestTopK

\* the decoder raises nothing but a JSONDecodeError on the row's body_paragraphs
WellFormed(essay) == BodyParagraphs(essay.body_paragraphs).raised = "none"

\* C18: after a load whose query went through, the essay cache holds every
\* row of the table that is well formed, and the corpus cache holds the
\* sentences of every such row, whatever other rows the table holds.
C18_MalformedRecordSkipped ==
  \A t \in Threads :
    /\ (pc[t] = "done" /\ frame[t].essays_query = "ok") =>
         \A i \in 1..Len(db_essays) :
           WellFormed(db_essays[i]) =>
             \E j \in 1..Len(ielts_essays_cache.val) :
               /\ ielts_essays_cache.val[j].essay_number = db_essays[i].essay_number
               /\ ielts_essays_cache.val[j].body_text = OrEmpty(db_essays[i].body_text)
    /\ (pc[t] = "done" /\ frame[t].corpus_query = "ok") =>
         \A i \in 1..Len(db_essays) :
           WellFormed(db_essays[i]) =>
             \A k \in 1..Len(EssayPhrases(OrEmpty(db_essays[i].body_text))) :
               InList(EssayPhrases(OrEmpty(db_essays[i].body_text))[k],
                      writing_corpus_cache.val)

\* the categories gated by the context, in the lexicon's declaration order
GatedCategories(context_lower) ==
  SelectSeq([ci \in 1..Len(keywords) |-> ci], LAMBDA ci : Gated(ci, context_lower))

\* what Tier A takes from a pool: category by category in declaration order,
\* within a category in pool order, each phrase once and none already selected
TierAOrder(pool, context_lower, selected) ==
  LET cats == GatedCategories(context_lower)
      hits == Flatten([g \in 1..Len(cats) |->
                         SelectSeq(pool, LAMBDA s : HasKeyword(cats[g], s))])
  IN  FirstOccurrences(SelectSeq(hits, LAMBDA s : ~InList(s, selected)))

\* the elements of seq after the first n, at most len of them
Segment(seq, n, len) ==
  [i \in 1..(IF Len(seq) - n < len THEN (IF Len(seq) < n THEN 0 ELSE Len(seq) - n) ELSE len)
     |-> seq[n + i]]

\* what Tier A over the read essays gives a call with top_k >= 1
ReadTierA(t) ==
  Prefix(TierAOrder(ReadPool(t), Lower(call[t].context), <<>>), call[t].top_k)

\* what the tiers over the read essays left selected
SelectedFromRead(t) ==
  ReadPass(Lower(call[t].context), call[t].top_k, ReadPool(t)).matched

\* what Tier A over the corpus adds for a call with top_k >= 1
CorpusTierA(t) ==
  Prefix(TierAOrder(frame[t].corpus, Lower(call[t].context), SelectedFromRead(t)),
         call[t].top_k - Len(SelectedFromRead(t)))

\* C19: for top_k >= 1, Tier A over a pool emits the phrases not yet
\* selected that contain a keyword of a category gated by the context,
\* grouped by category in the lexicon's declaration order and in pool order
\* within a category, each phrase once at its first gated category, and no
\* phrase that matches only categories the context does not gate; it stops
\* when top_k phrases are selected.  The result begins with what Tier A takes
\* from the read essays, and what Tier A takes from the corpus follows what the
\* read essays' tiers selected.
C19_TierAOrder ==
  \A t \in Threads :
    (Retrieved(t) /\ call[t].top_k >= 1) =>
      /\ Prefix(result[t].value, Len(ReadTierA(t))) = ReadTierA(t)
      /\ Len(SelectedFromRead(t)) < call[t].top_k =>
            Segment(result[t].value, Len(SelectedFromRead(t)), Len(CorpusTierA(t)))
              = CorpusTierA(t)

\* a call whose read essays hold, in pool order, a sentence of the second gated
\* category only and then a sentence of both gated categories: the result
\* has them in category order, the sentence of both categories once
C19_Witness ==
  \E t \in Threads :
    /\ Retrieved(t) /\ call[t].top_k >= 2
    /\ Len(GatedCategories(Lower(call[t].context))) >= 2
    /\ Len(ReadPool(t)) >= 2
    /\ Len(result[t].value) >= 2
    /\ result[t].value[1] = ReadPool(t)[2]
    /\ result[t].value[2] = ReadPool(t)[1]
    /\ \A ci \in 1..Len(keywords) :
          Gated(ci, Lower(call[t].context)) /\ HasKeyword(ci, ReadPool(t)[1])
            => HasKeyword(ci, ReadPool(t)[2])
    /\ \E ci \in 1..Len(keywords) :
          /\ Gated(ci, Lower(call[t].context))
          /\ HasKeyword(ci, ReadPool(t)[2]) /\ ~HasKeyword(ci, ReadPool(t)[1])

\* the positions of a pool that Tier B considers: the phrase is not yet
\* selected and shares at least one word with the context
TierBCandidates(pool, context_lower, selected) ==
  {i \in 1..Len(pool) : ~InList(pool[i], selected) /\ Overlap(context_lower, pool[i]) > 0}

\* position i of the pool comes before position j in Tier B's order
RanksBefore(pool, context_lower, i, j) ==
  \/ Overlap(context_lower, pool[i]) > Overlap(context_lower, pool[j])
  \/ Overlap(context_lower, pool[i]) = Overlap(context_lower, pool[j]) /\ i < j

\* the candidates by descending overlap, equal overlaps in pool order
TierBOrder(pool, context_lower, selected) ==
  LET cand == TierBCandidates(pool, context_lower, selected)
  IN  [r \in 1..Cardinality(cand) |->
         pool[CHOOSE i \in cand :
                Cardinality({j \in cand : RanksBefore(pool, context_lower, j, i)}) = r - 1]]

\* what Tier B over the read essays adds for a call with top_k >= 1 whose
\* Tier A over the read essays selected fewer than top_k
ReadTierB(t) ==
  Prefix(TierBOrder(ReadPool(t), Lower(call[t].context), ReadTierA(t)),
         call[t].top_k - Len(ReadTierA(t)))

\* what is selected when Tier B over the corpus starts
SelectedBeforeCorpusTierB(t) == SelectedFromRead(t) \o CorpusTierA(t)

\* what Tier B over the corpus adds for a call with top_k >= 1
CorpusTierB(t) ==
  Prefix(TierBOrder(frame[t].corpus, Lower(call[t].context), SelectedBeforeCorpusTierB(t)),
         call[t].top_k - Len(SelectedBeforeCorpusTierB(t)))

\* C20: for top_k >= 1, Tier B over a pool takes the pool's entries whose
\* phrase is not yet selected and shares at least one word with the context,
\* and appends them by descending overlap, entries of equal overlap in pool
\* order, until top_k phrases are selected; an entry of overlap 0 is never
\* appended.  What Tier B takes from the read essays follows their Tier A in
\* the result, and what it takes from the corpus follows the corpus's Tier A.
C20_TierBOrder ==
  \A t \in Threads :
    (Retrieved(t) /\ call[t].top_k >= 1) =>
      /\ Len(ReadTierA(t)) < call[t].top_k =>
            Segment(result[t].value, Len(ReadTierA(t)), Len(ReadTierB(t))) = ReadTierB(t)
      /\ Len(SelectedFromRead(t)) < call[t].top_k
            /\ Len(SelectedBeforeCorpusTierB(t)) < call[t].top_k =>
              Segment(result[t].value, Len(SelectedBeforeCorpusTierB(t)), Len(CorpusTierB(t)))
                = CorpusTierB(t)

\* a call whose context gates no category and whose read essays hold a
\* sentence of smaller overlap before one of greater overlap: the result has
\* the greater first, then the smaller, then a corpus phrase that shares a
\* word with the context and is the first in the corpus of its overlap
C20_Witness ==
  \E t \in Threads :
    /\ Retrieved(t) /\ call[t].top_k >= 3
    /\ GatedCategories(Lower(call[t].context)) = <<>>
    /\ Len(ReadPool(t)) = 2
    /\ Len(result[t].value) = 3
    /\ result[t].value[1] = ReadPool(t)[2]
    /\ result[t].value[2] = ReadPool(t)[1]
    /\ Overlap(Lower(call[t].context), ReadPool(t)[2])
          > Overlap(Lower(call[t].context), ReadPool(t)[1])
    /\ Overlap(Lower(call[t].context), ReadPool(t)[1]) > 0
    /\ \E i, j \in 1..Len(frame[t].corpus) :
          /\ i < j
          /\ result[t].value[3] = frame[t].corpus[i]
          /\ Overlap(Lower(call[t].context), frame[t].corpus[i]) > 0
          /\ Overlap(Lower(call[t].context), frame[t].corpus[j])
                = Overlap(Lower(call[t].context), frame[t].corpus[i])
          /\ frame[t].corpus[j] # frame[t].corpus[i]

\* selected, then what a stage offers, cut at top_k; a stage offers nothing
\* once top_k phrases are selected
AfterStage(selected, offered, top_k) ==
  IF Len(selected) < top_k THEN Prefix(selected \o offered, top_k) ELSE selected

\* the phrases selected after each stage for a context, top_k >= 0, a
\* personalized pool and a corpus: Tier A then Tier B over the pool, Tier A
\* then Tier B over the corpus, then the fallback phrases
AfterReadTierA(context_lower, top_k, pool) ==
  Prefix(TierAOrder(pool, context_lower, <<>>), top_k)

AfterReadTierB(context_lower, top_k, pool) ==
  AfterStage(AfterReadTierA(context_lower, top_k, pool),
             TierBOrder(pool, context_lower, AfterReadTierA(context_lower, top_k, pool)),
             top_k)

AfterCorpusTierA(context_lower, top_k, pool, corpus) ==
  AfterStage(AfterReadTierB(context_lower, top_k, pool),
             TierAOrder(corpus, context_lower, AfterReadTierB(context_lower, top_k, pool)),
             top_k)

AfterCorpusTierB(context_lower, top_k, pool, corpus) ==
  AfterStage(AfterCorpusTierA(context_lower, top_k, pool, corpus),
             TierBOrder(corpus, context_lower,
                        AfterCorpusTierA(context_lower, top_k, pool, corpus)),
             top_k)

AfterFallback(context_lower, top_k, pool, corpus) ==
  AfterStage(AfterCorpusTierB(context_lower, top_k, pool, corpus),
             SelectSeq(MarkerPhrases(corpus),
                       LAMBDA p : ~InList(p, AfterCorpusTierB(context_lower, top_k, pool, corpus))),
             top_k)

\* C21: for top_k >= 0 the result is what the stages select one after the
\* other, each appending to what the stages before it selected and only while
\* fewer than top_k phrases are selected: Tier A over the read essays, Tier B
\* over the read essays, Tier A over the corpus, Tier B over the corpus, the
\* fallback phrases.  A stage never removes or reorders what was selected.
C21_StagesInOrder ==
  \A t \in Threads :
    (Retrieved(t) /\ call[t].top_k >= 0) =>
      result[t].value
        = AfterFallback(Lower(call[t].context), call[t].top_k, ReadPool(t), frame[t].corpus)

\* a result whose first phrase shares a word with the context and whose last
\* phrase is a fallback phrase: it shares no word with the context, no
\* category is gated, and it holds a marker word
C21_Witness ==
  \E t \in Threads :
    /\ Retrieved(t) /\ call[t].top_k >= 2
    /\ Len(result[t].value) = call[t].top_k
    /\ GatedCategories(Lower(call[t].context)) = <<>>
    /\ Overlap(Lower(call[t].context), result[t].value[1]) > 0
    /\ ~HasMarker(result[t].value[1])
    /\ Overlap(Lower(call[t].context), result[t].value[Len(result[t].value)]) = 0
    /\ HasMarker(result[t].value[Len(result[t].value)])

\* the pieces of body_text.split(". "), stripped, whatever their length; they
\* do not depend on the state and are computed once for the model's bodies
PiecesTable ==
  [b \in Bodies |->
     {Strip(Split(b, SentenceSeparator)[j]) : j \in 1..Len(Split(b, SentenceSeparator))}]

\* len(sentence.split()) of the pieces and of the corpus phrases
WordCountTable ==
  [s \in Texts \cup UNION {PiecesTable[b] : b \in Bodies} |-> Len(SplitWords(s))]

\* len(sentence.split()) is within the window of 8 to 30 words
InWindow(sentence) ==
  /\ 8 <= WordCountTable[sentence] /\ WordCountTable[sentence] <= 30

\* the sentences of the essays table
TableSentences ==
  UNION {IF db_essays[i].body_text.isNone THEN {} ELSE PiecesTable[db_essays[i].body_text.val] :
         i \in 1..Len(db_essays)}

\* the part of the populated corpus cache after the static phrases
EssayDerived ==
  Segment(writing_corpus_cache.val, Len(WRITING_CORPUS), Len(writing_corpus_cache.val))

\* C22: every sentence the populated corpus cache holds after the static
\* phrases, and every sentence of the personalized pool of a retrieve call,
\* has 8 to 30 words; a sentence of the table with 7 words or fewer or 31 or
\* more is in neither; the static phrases are all in the cache, those of
\* fewer than 8 words too.
C22_WordWindow ==
  /\ ~writing_corpus_cache.isNone =>
        /\ \A i \in 1..Len(EssayDerived) : InWindow(EssayDerived[i])
        /\ \A s \in TableSentences : ~InWindow(s) => ~InList(s, EssayDerived)
        /\ \A i \in 1..Len(WRITING_CORPUS) : InList(WRITING_CORPUS[i], writing_corpus_cache.val)
  /\ \A t \in Threads :
        Retrieved(t) =>
          /\ \A i \in 1..Len(ReadPool(t)) : InWindow(ReadPool(t)[i])
          /\ \A s \in TableSentences : ~InWindow(s) => ~InList(s, ReadPool(t))

\* a retrieve call over a table with sentences of 7, 8, 30 and 31 words: the
\* cache and the personalized pool hold those of 8 and 30 words, and the
\* cache holds a static phrase of fewer than 8 words
C22_Witness ==
  \E t \in Threads :
    /\ Retrieved(t)
    /\ {Words7, Words8, Words30} \subseteq TableSentences
    /\ WordCountTable[Words7] = 7
    /\ \E s \in TableSentences : WordCountTable[s] = 31
    /\ InList(Words8, EssayDerived) /\ InList(Words30, EssayDerived)
    /\ InList(Words8, ReadPool(t)) /\ InList(Words30, ReadPool(t))
    /\ \E i \in 1..Len(WRITING_CORPUS) :
          /\ ~InWindow(WRITING_CORPUS[i])
          /\ InList(WRITING_CORPUS[i], writing_corpus_cache.val)

\* the sentences of one body text that are within the window, by position;
\* computed once for the model's bodies
OrderedTable ==
  [b \in Bodies |->
     LET parts == Split(b, SentenceSeparator)
     IN  AtPositions([j \in 1..Len(parts) |-> Strip(parts[j])],
                     {j \in 1..Len(parts) :
                        /\ Strip(parts[j]) # <<>>
                        /\ 8 <= Len(SplitWords(parts[j]))
                        /\ Len(SplitWords(parts[j])) <= 30})]

\* the rows of the essays table come in ascending essay_number
AscendingTable ==
  \A i, j \in 1..Len(db_essays) :
    i < j => db_essays[i].essay_number < db_essays[j].essay_number

\* the sentences extracted from the table: essay after essay, and within an
\* essay by position
ExtractedInOrder ==
  Flatten([i \in 1..Len(db_essays) |->
             IF OrEmpty(db_essays[i].body_text) = <<>> THEN <<>>
             ELSE OrderedTable[db_essays[i].body_text.val]])

\* C23: the populated corpus cache begins with the static phrases, unchanged
\* and in declaration order, whatever operations ran; what follows is the
\* sentences extracted from the essays, by ascending essay number and by
\* position within an essay, or nothing when the load failed.
C23_StaticThenEssays ==
  ~writing_corpus_cache.isNone =>
    /\ Prefix(writing_corpus_cache.val, Len(WRITING_CORPUS)) = WRITING_CORPUS
    /\ AscendingTable
    /\ EssayDerived \in {<<>>, ExtractedInOrder}
    /\ \A t \in Threads :
          (pc[t] = "done" /\ frame[t].corpus_query = "ok") => EssayDerived = ExtractedInOrder

\* a call that loaded the corpus from a table of two essays that both have
\* sentences: the cache holds essay 7's sentences before essay 9's
C23_Witness ==
  \E t \in Threads :
    /\ pc[t] = "done" /\ frame[t].corpus_query = "ok"
    /\ Len(db_essays) = 2
    /\ EssayPhrases(OrEmpty(db_essays[1].body_text)) # <<>>
    /\ EssayPhrases(OrEmpty(db_essays[2].body_text)) # <<>>
    /\ EssayPhrases(OrEmpty(db_essays[1].body_text)) # EssayPhrases(OrEmpty(db_essays[2].body_text))
    /\ writing_corpus_cache.val
          = WRITING_CORPUS \o EssayPhrases(OrEmpty(db_essays[1].body_text))
                           \o EssayPhrases(OrEmpty(db_essays[2].body_text))

\* C24: every sentence of the personalized pool of a retrieve call is a
\* phrase of the corpus that get_writing_corpus gave the call.
C24_PoolWithinCorpus ==
  \A t \in Threads :
    Retrieved(t) =>
      \A i \in 1..Len(ReadPool(t)) : InList(ReadPool(t)[i], frame[t].corpus)

\* what retrieve returns for caller t's context, pool and corpus with top_k = k
RetrieveWith(t, k) ==
  Retrieve(call[t].context, k, ReadPool(t), frame[t].corpus)

\* C25: for top_k >= 0, what retrieve returned is a prefix of what it
\* returns for the same context, the same read essays and the same corpus
\* with top_k + 1: one more only appends.
C25_PrefixMonotone ==
  \A t \in Threads :
    (Retrieved(t) /\ call[t].top_k >= 0) =>
      /\ Len(result[t].value) <= Len(RetrieveWith(t, call[t].top_k + 1))
      /\ \A i \in 1..Len(result[t].value) :
            RetrieveWith(t, call[t].top_k + 1)[i] = result[t].value[i]

\* a call that returned top_k >= 1 sentences of the read essays, where
\* top_k + 1 gives one phrase more, taken from outside the read essays
C25_Witness ==
  \E t \in Threads :
    /\ Retrieved(t) /\ call[t].top_k >= 1
    /\ Len(result[t].value) = call[t].top_k
    /\ \A i \in 1..Len(result[t].value) : InList(result[t].value[i], ReadPool(t))
    /\ Len(RetrieveWith(t, call[t].top_k + 1)) = call[t].top_k + 1
    /\ ~InList(RetrieveWith(t, call[t].top_k + 1)[call[t].top_k + 1], ReadPool(t))

\* caller t's POST /suggest has ended
Answered(t) == call[t].op = "suggest" /\ pc[t] = "done"

\* C26: /suggest answers every request with an object whose "suggestions" is
\* a list, whatever the text and whatever the outcome of the model's call; no
\* exception leaves it.
C26_SuggestAlwaysAnswers ==
  \A t \in Threads :
    Answered(t) =>
      /\ result[t].status = "returned"
      /\ DictGet(result[t].value, SuggestionsKey, [kind |-> "none", value |-> <<>>]).kind = "array"

====
